---- MODULE Spec2Model ----
(***************************************************************************)
(* kubernetes-cross-test: the suite lifecycle (main's loop over the test   *)
(* suites, TestManager.__enter__ / __exit__), the concurrent execution     *)
(* engine (run_tests and its thread pool, Test.run) and the resource       *)
(* delete methods, as state machines.                                      *)
(*                                                                         *)
(* Python values are written as strings: "None", "True", "False".          *)
(***************************************************************************)
EXTENDS Integers, Sequences, FiniteSets, TLC

(***************************************************************************)
(* Bounds of the model.                                                    *)
(***************************************************************************)
\* the configuration declares at most this many test suites
NumSuites == 2
\* a suite declares at most this many resources
MaxResources == 2
\* the matrix holds at most this many tests
MaxTests == 2
\* run_tests is called with max_workers in 1..MaxWorkersParam, or the default
MaxWorkersParam == 1
MaxDeclaredSuites == 2
MaxDeclarations == 1

(***************************************************************************)
(* Program constants.                                                      *)
(***************************************************************************)
\* run_tests(..., max_workers: int = 10)
DefaultMaxWorkers == 10
\* e.status == 404
NotFound == 404

\* HTTP statuses the cluster API answers a delete with (200: deleted)
ApiStatuses == {200, NotFound, 403, 500}

\* the keys of tests.suite.test_suite
TestSuiteKeys == {"curl", "nslookup", "ping"}
\* test_type values a Test may carry: the registered ones and an unknown one
TestTypes == TestSuiteKeys \cup {"traceroute"}

\* the keyword arguments Test.run passes to the probe function
TestParams == {"kubeconfig_location", "namespace", "pod", "target_ip", "dst_hostname"}

\* the named parameters of each probe function
ProbeParams(test_type) ==
    CASE test_type = "curl" ->
           {"kubeconfig_location", "namespace", "pod", "target_ip", "dst_hostname"}
      [] test_type = "ping" ->
           {"kubeconfig_location", "namespace", "pod", "target_ip"}
      [] test_type = "nslookup" ->
           {"kubeconfig_location", "namespace", "pod", "target_hostname"}

\* whether the probe function takes **_
ProbeVarKw(test_type) == test_type \in {"ping", "nslookup"}

\* test_function(**test_params) binds: every named parameter is passed, and
\* every keyword passed is a named parameter or is taken by **_
CallBinds(test_type) ==
    /\ ProbeParams(test_type) \subseteq TestParams
    /\ ProbeVarKw(test_type) \/ TestParams \subseteq ProbeParams(test_type)

VARIABLES
    max_workers,     \* run_tests' max_workers argument
    plan,            \* the test_type of each test the matrix loops generate
    pc,              \* where the main thread is
    suite,           \* number of suites whose with-block was started
    resources,       \* TestManager.resources of the current suite: each one's kind
    ri,              \* index of the resource the create / delete loop is at
    rstate,          \* lifecycle state of each resource of the current suite
    createCalls,     \* how many times create was invoked on each resource
    deleteCalls,     \* how many times delete was invoked on each resource
    settled,         \* the sleep(1) of __enter__ has elapsed
    entered,         \* __enter__ returned: the with-body was started
    exc,             \* the exception propagating in the main thread
    tests,           \* run_tests' list of Test objects
    kubeconfigs,     \* run_tests' kubeconfigs dict, shared with the workers
    remapped_cidrs,  \* run_tests' remapped_cidrs dict, shared with the workers
    submitted,       \* number of futures submitted to the executor
    fut,             \* state of each future
    runs,            \* how many times Test.run was entered for each test
    yielded,         \* futures as_completed has yielded
    results,         \* what run_tests returned
    run_tests_ended, \* how the call of run_tests ended: "returned", "raised"
    call,            \* a direct call of a resource's delete: its arguments
    ret,             \* ... and how it ended
    hung,            \* the tests whose probe call blocks and will never return
    executions,      \* how many times main has called run_tests
    config_data,     \* the configuration document main was started with
    tests_suites,    \* what generate_test_suite returned: each suite's resources
    sources,         \* run_tests' sources argument
    destinations,    \* run_tests' destinations argument
    clusters,        \* run_tests' clusters argument: each one's remapped_cidrs
    remap_call,      \* a direct call of remap_ip: its arguments
    remap_ret,       \* ... and what it returned or raised
    report_call,     \* a run's report: the results and the output path
    report_pc,       \* where main's reporting (main.py 26-52) is
    results_map,     \* main's results_map
    document,        \* the file json.dump wrote at output_path
    rows,            \* the matrix print_results printed in main
    table_ret,       \* what table.py printed from the document, or raised
    body_self,       \* a resource whose body is built: its kind, name, options
    body_clusters,   \* the registry its options["clusters"] refers to
    body_ret         \* what _get_body_content returned or raised

vars == << max_workers, plan, pc, suite, resources, ri, rstate, createCalls,
           deleteCalls, settled, entered, exc, tests, kubeconfigs,
           remapped_cidrs, submitted, fut, runs, yielded, results,
           run_tests_ended, call, ret, hung, executions, config_data,
           tests_suites, sources, destinations, clusters, remap_call,
           remap_ret, report_call, report_pc, results_map, document, rows,
           table_ret, body_self, body_clusters, body_ret >>

lifecycleVars == << suite, resources, ri, rstate, createCalls, deleteCalls,
                    settled, entered, executions >>
poolVars == << tests, kubeconfigs, remapped_cidrs, submitted, fut, runs,
               yielded, results, run_tests_ended >>
deleteVars == << call, ret >>
configVars == << config_data, tests_suites >>
matrixVars == << sources, destinations, clusters >>
remapVars == << remap_call, remap_ret >>
reportVars == << report_call, report_pc, results_map, document, rows,
                 table_ret >>
bodyVars == << body_self, body_clusters, body_ret >>
unitVars == << deleteVars, hung, configVars, matrixVars, remapVars,
               reportVars, bodyVars >>

\* the elements of a list
Range(seq) == {seq[k] : k \in DOMAIN seq}

(***************************************************************************)
(* Resource deletion (resources/base.py, resources/kubernetes.py).         *)
(***************************************************************************)
\* Python truthiness of an optional string
Falsy(s) == s \in {"None", ""}

\* variant: a handler that returns None on 404 whatever exception_on_not_found
ApiExceptionHandler_lenient(status, exception_on_not_found) ==
    IF status = NotFound
    THEN "return None"
    ELSE "raise ApiException"

\* except ApiException as e: if e.status == 404 and not exception_on_not_found:
\*     return None  else: raise e
ApiExceptionHandler(status, exception_on_not_found) ==
    IF status = NotFound /\ ~exception_on_not_found
    THEN "return None"
    ELSE "raise ApiException"

\* CustomResource.delete
CustomResourceDelete(namespace, name, status, exception_on_not_found) ==
    IF Falsy(namespace) THEN "raise ValueError"
    ELSE IF Falsy(name) THEN "raise ValueError"
    ELSE IF status = 200 THEN "return status"
    ELSE ApiExceptionHandler(status, exception_on_not_found)

\* NetworkPolicyResource.delete
NetworkPolicyResourceDelete(namespace, name, status, exception_on_not_found) ==
    IF status = 200 THEN "return status"
    ELSE ApiExceptionHandler(status, exception_on_not_found)

\* the classes of resources.test.test_resources and the delete each inherits
ResourceKinds == {"isolation_network_policy", "tunnel_firewall_rule"}

\* the clusters the configuration declares
ClusterNames == {"A", "B"}

ResourceDelete(kind, namespace, name, status, exception_on_not_found) ==
    IF kind = "isolation_network_policy"
    THEN NetworkPolicyResourceDelete(namespace, name, status, exception_on_not_found)
    ELSE CustomResourceDelete(namespace, name, status, exception_on_not_found)

Raises(outcome) == outcome \in {"raise ValueError", "raise ApiException"}

(***************************************************************************)
(* IP remapping (utils/network.py).                                        *)
(* A text is what the ipaddress library makes of it: "v4" a dotted quad    *)
(* with its octets, "v6" an IPv6 text with its value, "bad" a text the     *)
(* library rejects. A Python int is its binary digits, most significant    *)
(* first, without leading zeros (the empty sequence is 0).                 *)
(***************************************************************************)
OctetBits(o) == [k \in 1..8 |-> (o \div (2 ^ (8 - k))) % 2]

V4Bits(octets) ==
    OctetBits(octets[1]) \o OctetBits(octets[2]) \o
    OctetBits(octets[3]) \o OctetBits(octets[4])

\* the digits from the first 1 on
StripZeros(b) ==
    IF \A k \in 1..Len(b) : b[k] = 0 THEN << >>
    ELSE LET first == CHOOSE k \in 1..Len(b) :
                          b[k] = 1 /\ \A j \in 1..(k - 1) : b[j] = 0
         IN  SubSeq(b, first, Len(b))

\* bin(n)[2:]
bin(n) == IF n = << >> THEN << 0 >> ELSE n

\* str.zfill(width)
zfill(b, width) ==
    IF Len(b) >= width THEN b
    ELSE [k \in 1..(width - Len(b)) |-> 0] \o b

\* int(ip_address(text)), or the ValueError ip_address raises
ip_address(text) ==
    IF text.form = "v4"
    THEN [raised |-> FALSE, int |-> StripZeros(V4Bits(text.octets))]
    ELSE IF text.form = "v6"
    THEN [raised |-> FALSE, int |-> text.bits]
    ELSE [raised |-> TRUE, int |-> << >>]

\* ip_network(text, strict=False): the network address (host bits masked
\* away) and the prefix length, or the ValueError ip_network raises; a text
\* with no "/" is a network of one address
ip_network(text) ==
    IF text.form \in {"v4", "v6"}
    THEN LET width == IF text.form = "v4" THEN 32 ELSE 128
             value == IF text.form = "v4" THEN V4Bits(text.octets)
                      ELSE zfill(text.bits, width)
             masked == [k \in 1..width |->
                          IF k <= text.prefixlen THEN value[k] ELSE 0]
         IN  [raised |-> FALSE, network_address |-> StripZeros(masked),
              prefixlen |-> text.prefixlen]
    ELSE [raised |-> TRUE, network_address |-> << >>, prefixlen |-> 0]

\* bin(int(ip_address(ip)))[2:].zfill(32)
ip_to_bin(ip) ==
    LET address == ip_address(ip)
    IN  [raised |-> address.raised, bin |-> zfill(bin(address.int), 32)]

\* variant: the whole network address, not cut at the prefix length
cidr_to_bin_uncut(cidr) ==
    LET network == ip_network(cidr)
    IN  [raised |-> network.raised,
         bin |-> zfill(bin(network.network_address), 32)]

\* bin(int(network.network_address))[2:].zfill(32)[: network.prefixlen]
cidr_to_bin(cidr) ==
    LET network == ip_network(cidr)
        padded == zfill(bin(network.network_address), 32)
    IN  [raised |-> network.raised,
         bin |-> SubSeq(padded, 1, IF network.prefixlen < Len(padded)
                                   THEN network.prefixlen ELSE Len(padded))]

\* the value of eight binary digits
OctetValue(b) ==
    b[1] * 128 + b[2] * 64 + b[3] * 32 + b[4] * 16 + b[5] * 8 + b[6] * 4 +
    b[7] * 2 + b[8]

\* str(ip_address(int(bin_str, 2))): an int below 2**32 is an IPv4 address,
\* a larger one an IPv6 address
bin_to_ip(bin_str) ==
    LET int == StripZeros(bin_str)
    IN  IF Len(int) <= 32
        THEN LET b == zfill(int, 32)
             IN  [form |-> "v4",
                  octets |-> [o \in 1..4 |-> OctetValue(SubSeq(b, 8 * o - 7, 8 * o))]]
        ELSE [form |-> "v6", bits |-> int]

\* remap_ip: the CIDR's prefix digits, then the original address's digits
\* from there on
remap_ip(original_ip, remapped_cidr) ==
    LET original_ip_bin == ip_to_bin(original_ip)
        remapped_cidr_bin == cidr_to_bin(remapped_cidr)
    IN  IF original_ip_bin.raised THEN [form |-> "ValueError"]
        ELSE IF remapped_cidr_bin.raised THEN [form |-> "ValueError"]
        ELSE bin_to_ip(remapped_cidr_bin.bin \o
                       SubSeq(original_ip_bin.bin, Len(remapped_cidr_bin.bin) + 1,
                              Len(original_ip_bin.bin)))

(***************************************************************************)
(* Initial state: main was called, nothing has run.                        *)
(***************************************************************************)
TestPlans == UNION {[1..n -> TestTypes] : n \in 0..MaxTests}

\* the resource lists a suite of the configuration may declare
ResourceLists == UNION {[1..n -> ResourceKinds] : n \in 0..MaxResources}

NoCall == [kind |-> "None", namespace |-> "None", name |-> "None",
           status |-> 0, exception_on_not_found |-> FALSE]

\* no configuration document: the suites are the ones main_for draws
NoConfig == [schema_valid |-> TRUE, tests |-> << >>]

NoRemapCall == [original_ip |-> [form |-> "none"], remapped_cidr |-> [form |-> "none"]]

InitConfig ==
    /\ config_data = NoConfig
    /\ tests_suites = << >>

InitMatrix ==
    /\ sources = << >>
    /\ destinations = << >>
    /\ clusters = << >>

InitRemap ==
    /\ remap_call = NoRemapCall
    /\ remap_ret = [form |-> "none"]

\* no report is being made
NoReport == [module |-> "None", output_path |-> "None", tests |-> << >>]
NoDocument == [written |-> FALSE]
NoTable == [raised |-> "NotRun"]

InitReport ==
    /\ report_call = NoReport
    /\ report_pc = "idle"
    /\ results_map = << >>
    /\ document = NoDocument
    /\ rows = << >>
    /\ table_ret = NoTable

\* no body is being built
NoResource == [kind |-> "None", name |-> "None", options |-> << >>]
NoRegistry == [shape |-> "list", items |-> << >>]
NoBody == [raised |-> "NotCalled"]

InitBody ==
    /\ body_self = NoResource
    /\ body_clusters = NoRegistry
    /\ body_ret = NoBody

InitLifecycle ==
    /\ pc = "for"
    /\ executions = 0
    /\ hung = {}
    /\ suite = 0
    /\ resources = << >>
    /\ ri = 0
    /\ rstate = << >>
    /\ createCalls = << >>
    /\ deleteCalls = << >>
    /\ settled = FALSE
    /\ entered = FALSE
    /\ exc = "None"

InitPool ==
    /\ tests = << >>
    /\ kubeconfigs = << >>
    /\ remapped_cidrs = << >>
    /\ submitted = 0
    /\ fut = << >>
    /\ runs = << >>
    /\ yielded = {}
    /\ results = << >>
    /\ run_tests_ended = "None"

Init ==
    /\ max_workers \in (1..MaxWorkersParam) \cup {DefaultMaxWorkers}
    /\ plan \in TestPlans
    /\ InitLifecycle
    /\ InitPool
    /\ InitReport
    /\ InitBody
    /\ call = NoCall
    /\ ret = "None"
    /\ InitConfig
    /\ InitMatrix
    /\ InitRemap

(***************************************************************************)
(* main: for test_name, test_resources in tests_suites: with TestManager.. *)
(***************************************************************************)
\* with TestManager(test_name, test_resources): the manager is constructed
\* for the suite's resources
EnterSuite(test_resources) ==
    /\ resources' = test_resources
    /\ rstate' = [r \in DOMAIN test_resources |-> "unprovisioned"]
    /\ createCalls' = [r \in DOMAIN test_resources |-> 0]
    /\ deleteCalls' = [r \in DOMAIN test_resources |-> 0]
    /\ suite' = suite + 1
    /\ ri' = 1
    /\ settled' = FALSE
    /\ entered' = FALSE
    /\ pc' = "create"
    /\ tests' = << >>
    /\ kubeconfigs' = << >>
    /\ remapped_cidrs' = << >>
    /\ submitted' = 0
    /\ fut' = << >>
    /\ runs' = << >>
    /\ yielded' = {}
    /\ results' = << >>
    /\ run_tests_ended' = "None"

\* the for statement takes the next suite, or the list is exhausted
main_for ==
    /\ pc = "for"
    /\ \/ /\ suite < NumSuites
          /\ \E test_resources \in ResourceLists : EnterSuite(test_resources)
       \/ /\ pc' = "done"
          /\ UNCHANGED << lifecycleVars, poolVars >>
    /\ UNCHANGED << max_workers, plan, exc, executions, unitVars >>

(***************************************************************************)
(* TestManager.__enter__                                                   *)
(***************************************************************************)
\* variant: a failed create is followed by the teardown of the suite
TestManager_enter_create_rollback ==
    /\ pc = "create"
    /\ ri <= Len(resources)
    /\ createCalls' = [createCalls EXCEPT ![ri] = @ + 1]
    /\ \E created \in BOOLEAN :
         IF created
         THEN /\ rstate' = [rstate EXCEPT ![ri] = "active"]
              /\ ri' = ri + 1
              /\ UNCHANGED << pc, exc >>
         ELSE /\ exc' = "CreateError"
              /\ pc' = "delete"
              /\ ri' = 1
              /\ UNCHANGED rstate
    /\ UNCHANGED << max_workers, plan, suite, resources, deleteCalls, settled,
                    entered, executions, poolVars, unitVars >>

\* for resource in self.resources: resource.create()
\* a create that raises leaves __enter__, the with statement and main
TestManager_enter_create ==
    /\ pc = "create"
    /\ ri <= Len(resources)
    /\ createCalls' = [createCalls EXCEPT ![ri] = @ + 1]
    /\ \E created \in BOOLEAN :
         IF created
         THEN /\ rstate' = [rstate EXCEPT ![ri] = "active"]
              /\ ri' = ri + 1
              /\ UNCHANGED << pc, exc >>
         ELSE /\ exc' = "CreateError"
              /\ pc' = "raised"
              /\ UNCHANGED << rstate, ri >>
    /\ UNCHANGED << max_workers, plan, suite, resources, deleteCalls, settled,
                    entered, executions, poolVars, unitVars >>

\* sleep(1), then the with-body starts
TestManager_enter_sleep ==
    /\ pc = "create"
    /\ ri > Len(resources)
    /\ settled' = TRUE
    /\ entered' = TRUE
    /\ pc' = "build"
    /\ UNCHANGED << max_workers, plan, suite, resources, ri, rstate,
                    createCalls, deleteCalls, exc, executions, poolVars,
                    unitVars >>

(***************************************************************************)
(* run_tests (tests/execution.py)                                          *)
(***************************************************************************)
\* the Test the matrix loops append for one (source, destination, test_type)
NewTest(test_type) ==
    [ test_type           |-> test_type,
      src_ip              |-> "10.1.0.1",
      dst_ip              |-> "10.1.0.5",
      src_name            |-> "p1",
      src_namespace       |-> "default",
      dst_name            |-> "p2",
      dst_cluster_name    |-> "B",
      dst_hostname        |-> "p2",
      kubeconfig_location |-> "kubeconfig-A",
      result              |-> "None" ]

\* the tests list is built; the remap lookup and remap_ip may raise instead,
\* and the exception leaves run_tests and the with-body
run_tests_build ==
    /\ pc = "build"
    /\ executions' = executions + 1
    /\ \/ /\ tests' = [i \in 1..Len(plan) |-> NewTest(plan[i])]
          /\ kubeconfigs' = [c \in {"A", "B"} |-> "kubeconfig-" \o c]
          /\ remapped_cidrs' = [c \in {"A", "B"} |-> [d \in {"A", "B"} \ {c} |-> "10.1.0.0/16"]]
          /\ fut' = [i \in 1..Len(plan) |-> "new"]
          /\ runs' = [i \in 1..Len(plan) |-> 0]
          /\ pc' = IF Len(plan) = 0 THEN "as_completed" ELSE "submit"
          /\ UNCHANGED << exc, ri, run_tests_ended >>
       \/ /\ exc' = "KeyError"
          /\ run_tests_ended' = "raised"
          /\ pc' = "delete"
          /\ ri' = 1
          /\ UNCHANGED << tests, kubeconfigs, remapped_cidrs, fut, runs >>
    /\ UNCHANGED << max_workers, plan, suite, resources, rstate, createCalls,
                    deleteCalls, settled, entered, submitted, yielded, results,
                    unitVars >>

\* futures = [executor.submit(test.run) for test in tests], one test at a time
executor_submit ==
    /\ pc = "submit"
    /\ submitted < Len(tests)
    /\ submitted' = submitted + 1
    /\ fut' = [fut EXCEPT ![submitted + 1] = "pending"]
    /\ pc' = IF submitted + 1 = Len(tests) THEN "as_completed" ELSE "submit"
    /\ UNCHANGED << max_workers, plan, lifecycleVars, exc, tests, kubeconfigs,
                    remapped_cidrs, runs, yielded, results, run_tests_ended,
                    unitVars >>

\* the tests whose Test.run a worker thread is executing
Running == {i \in DOMAIN fut : fut[i] = "running"}

\* the work queue of the executor is first-in first-out
QueueHead(i) == fut[i] = "pending" /\ \A j \in 1..(i - 1) : fut[j] # "pending"

\* variant: a pool that starts a thread for every work item
WorkerFree_unbounded == TRUE

\* ThreadPoolExecutor(max_workers=max_workers): a worker thread is there
\* for the next work item
WorkerFree == Cardinality(Running) < max_workers

\* a worker thread takes test i's work item and enters Test.run
Test_run_begin(i) ==
    /\ pc \in {"submit", "as_completed"}
    /\ QueueHead(i)
    /\ WorkerFree
    /\ fut' = [fut EXCEPT ![i] = "running"]
    /\ runs' = [runs EXCEPT ![i] = @ + 1]
    /\ UNCHANGED << max_workers, plan, pc, lifecycleVars, exc, tests,
                    kubeconfigs, remapped_cidrs, submitted, yielded, results,
                    run_tests_ended, unitVars >>

\* how Test.run can end for a test: the value the probe returns, or the
\* exception raised (unknown test_type, the call does not bind, the probe)
TestRunOutcomes(test) ==
    IF test.test_type \notin TestSuiteKeys THEN {"ValueError"}
    ELSE IF ~CallBinds(test.test_type) THEN {"TypeError"}
    ELSE {"True", "False", "Exception"}

\* the probe call of test i blocks for good: stream.stream is called with no
\* timeout, and Test.run, the future and the executor set none either
probe_hangs(i) ==
    /\ i \in Running
    /\ i \notin hung
    /\ TestRunOutcomes(tests[i]) \cap {"True", "False"} # {}
    /\ hung' = hung \cup {i}
    /\ UNCHANGED << max_workers, plan, pc, lifecycleVars, exc, poolVars,
                    deleteVars, configVars, matrixVars, remapVars,
                    reportVars, bodyVars >>

\* variant: a deadline ends a probe call that blocks, as a failed run
Test_run_end_deadline(i) ==
    /\ i \in Running
    /\ \E outcome \in TestRunOutcomes(tests[i]) :
         IF outcome \in {"True", "False"} /\ i \notin hung
         THEN /\ tests' = [tests EXCEPT ![i].result = outcome]
              /\ fut' = [fut EXCEPT ![i] = "done"]
         ELSE /\ fut' = [fut EXCEPT ![i] = "exception"]
              /\ UNCHANGED tests
    /\ UNCHANGED << max_workers, plan, pc, lifecycleVars, exc, kubeconfigs,
                    remapped_cidrs, submitted, runs, yielded, results,
                    run_tests_ended, unitVars >>

\* variant: a failed run is put back on the queue
Test_run_end_retry(i) ==
    /\ i \in Running
    /\ \E outcome \in TestRunOutcomes(tests[i]) :
         IF outcome \in {"True", "False"}
         THEN /\ tests' = [tests EXCEPT ![i].result = outcome]
              /\ fut' = [fut EXCEPT ![i] = "done"]
         ELSE /\ fut' = [fut EXCEPT ![i] = "pending"]
              /\ UNCHANGED tests
    /\ UNCHANGED << max_workers, plan, pc, lifecycleVars, exc, kubeconfigs,
                    remapped_cidrs, submitted, runs, yielded, results,
                    run_tests_ended, unitVars >>

\* variant: the result is set to True before the probe is called
Test_run_end_optimistic(i) ==
    /\ i \in Running
    /\ \E outcome \in TestRunOutcomes(tests[i]) :
         IF outcome \in {"True", "False"}
         THEN /\ tests' = [tests EXCEPT ![i].result = outcome]
              /\ fut' = [fut EXCEPT ![i] = "done"]
         ELSE /\ tests' = [tests EXCEPT ![i].result = "True"]
              /\ fut' = [fut EXCEPT ![i] = "exception"]
    /\ UNCHANGED << max_workers, plan, pc, lifecycleVars, exc, kubeconfigs,
                    remapped_cidrs, submitted, runs, yielded, results,
                    run_tests_ended, unitVars >>

\* variant: every work item is bound to the last test of the list
Test_run_end_shared(i) ==
    /\ i \in Running
    /\ \E outcome \in TestRunOutcomes(tests[Len(tests)]) :
         IF outcome \in {"True", "False"}
         THEN /\ tests' = [tests EXCEPT ![Len(tests)].result = outcome]
              /\ fut' = [fut EXCEPT ![i] = "done"]
         ELSE /\ fut' = [fut EXCEPT ![i] = "exception"]
              /\ UNCHANGED tests
    /\ UNCHANGED << max_workers, plan, pc, lifecycleVars, exc, kubeconfigs,
                    remapped_cidrs, submitted, runs, yielded, results,
                    run_tests_ended, unitVars >>

\* Test.run of test i ends: self.result = test_function(**test_params), or
\* the exception is stored in the future
Test_run_end(i) ==
    /\ i \in Running
    /\ i \notin hung
    /\ \E outcome \in TestRunOutcomes(tests[i]) :
         IF outcome \in {"True", "False"}
         THEN /\ tests' = [tests EXCEPT ![i].result = outcome]
              /\ fut' = [fut EXCEPT ![i] = "done"]
         ELSE /\ fut' = [fut EXCEPT ![i] = "exception"]
              /\ UNCHANGED tests
    /\ UNCHANGED << max_workers, plan, pc, lifecycleVars, exc, kubeconfigs,
                    remapped_cidrs, submitted, runs, yielded, results,
                    run_tests_ended, unitVars >>

Finished(i) == fut[i] \in {"done", "exception"}

\* variant: future.result() outside any try: a probe's exception leaves
\* run_tests and the with-body
as_completed_next_uncaught(i) ==
    /\ pc = "as_completed"
    /\ Finished(i)
    /\ i \notin yielded
    /\ yielded' = yielded \cup {i}
    /\ IF fut[i] = "exception"
       THEN /\ exc' = "Exception"
            /\ run_tests_ended' = "raised"
            /\ pc' = "delete"
            /\ ri' = 1
       ELSE UNCHANGED << exc, run_tests_ended, pc, ri >>
    /\ UNCHANGED << max_workers, plan, suite, resources, rstate, createCalls,
                    deleteCalls, settled, entered, tests, kubeconfigs,
                    remapped_cidrs, submitted, fut, runs, results, executions,
                    unitVars >>

\* for future in as_completed(futures): try: future.result()
\* except Exception as exc: print(...)
as_completed_next(i) ==
    /\ pc = "as_completed"
    /\ Finished(i)
    /\ i \notin yielded
    /\ yielded' = yielded \cup {i}
    /\ UNCHANGED << max_workers, plan, pc, lifecycleVars, exc, tests,
                    kubeconfigs, remapped_cidrs, submitted, fut, runs, results,
                    run_tests_ended, unitVars >>

\* variant: run_tests returns without waiting for the futures
run_tests_return_nowait ==
    /\ pc = "as_completed"
    /\ results' = tests
    /\ run_tests_ended' = "returned"
    /\ pc' = "body"
    /\ UNCHANGED << max_workers, plan, lifecycleVars, exc, tests, kubeconfigs,
                    remapped_cidrs, submitted, fut, runs, yielded, unitVars >>

\* as_completed is exhausted, the executor shuts down (wait=True): return tests
run_tests_return ==
    /\ pc = "as_completed"
    /\ yielded = DOMAIN fut
    /\ results' = tests
    /\ run_tests_ended' = "returned"
    /\ pc' = "body"
    /\ UNCHANGED << max_workers, plan, lifecycleVars, exc, tests, kubeconfigs,
                    remapped_cidrs, submitted, fut, runs, yielded, unitVars >>

\* variant: the with-body's end goes back to the for statement, no __exit__
main_body_rest_no_exit ==
    /\ pc = "body"
    /\ \E raised \in BOOLEAN :
         /\ exc' = IF raised THEN "BodyError" ELSE "None"
         /\ pc' = IF raised THEN "raised" ELSE "for"
    /\ UNCHANGED << max_workers, plan, suite, resources, ri, rstate, createCalls,
                    deleteCalls, settled, entered, executions, poolVars,
                    unitVars >>

\* the rest of the with-body (create_results_map, the summary, the JSON
\* document, print_results) completes or raises
main_body_rest ==
    /\ pc = "body"
    /\ \E raised \in BOOLEAN :
         exc' = IF raised THEN "BodyError" ELSE "None"
    /\ pc' = "delete"
    /\ ri' = 1
    /\ UNCHANGED << max_workers, plan, suite, resources, rstate, createCalls,
                    deleteCalls, settled, entered, executions, poolVars,
                    unitVars >>

(***************************************************************************)
(* TestManager.__exit__                                                    *)
(***************************************************************************)
\* for resource in self.resources: resource.delete()
\* a delete that raises leaves the loop, __exit__ and main
TestManager_exit_delete ==
    /\ pc = "delete"
    /\ ri <= Len(resources)
    /\ deleteCalls' = [deleteCalls EXCEPT ![ri] = @ + 1]
    /\ \E status \in ApiStatuses :
         LET outcome == ResourceDelete(resources[ri], "default", "resource", status, FALSE)
         IN  IF Raises(outcome)
             THEN /\ exc' = "DeleteError"
                  /\ pc' = "raised"
                  /\ UNCHANGED << rstate, ri >>
             ELSE /\ rstate' = [rstate EXCEPT ![ri] = "removed"]
                  /\ ri' = ri + 1
                  /\ UNCHANGED << pc, exc >>
    /\ UNCHANGED << max_workers, plan, suite, resources, createCalls, settled,
                    entered, executions, poolVars, unitVars >>

\* __exit__ returns None: an exception of the with-body goes on to main's
\* caller, otherwise the for statement continues
TestManager_exit_return ==
    /\ pc = "delete"
    /\ ri > Len(resources)
    /\ pc' = IF exc = "None" THEN "for" ELSE "raised"
    /\ UNCHANGED << max_workers, plan, lifecycleVars, exc, poolVars, unitVars >>

\* the steps of a suite's with-block
SuiteSteps ==
    \/ TestManager_enter_create
    \/ TestManager_enter_sleep
    \/ run_tests_build
    \/ executor_submit
    \/ \E i \in DOMAIN fut : Test_run_begin(i)
    \/ \E i \in DOMAIN fut : probe_hangs(i)
    \/ \E i \in DOMAIN fut : Test_run_end(i)
    \/ \E i \in DOMAIN fut : as_completed_next(i)
    \/ run_tests_return
    \/ main_body_rest
    \/ TestManager_exit_delete
    \/ TestManager_exit_return

Next ==
    \/ main_for
    \/ SuiteSteps

Spec == Init /\ [][Next]_vars

(***************************************************************************)
(* main from its first line, with a configuration document.                *)
(***************************************************************************)
\* the "type" and "cluster" a resource declaration may carry: two types of
\* test_resources and one that is not, a declared cluster and one that is not
DeclaredTypes == ResourceKinds \cup {"fabric_firewall_rule"}

Declarations == [type : DeclaredTypes, cluster : {"A", "Z"}]

DeclaredSuites == UNION {[1..n -> Declarations] : n \in 0..MaxDeclarations}

\* a document the schema rejects, or a valid one with its tests list (absent
\* is the empty list: config_data.get("tests", []))
ConfigDocuments ==
    {[schema_valid |-> FALSE, tests |-> << >>]} \cup
    [schema_valid : {TRUE},
     tests : UNION {[1..n -> DeclaredSuites] : n \in 0..MaxDeclaredSuites}]

\* main is called with a document; run_tests is called with its default
\* max_workers and generates at most one test per suite
InitMain ==
    /\ max_workers = DefaultMaxWorkers
    /\ plan \in {p \in TestPlans : Len(p) <= 1}
    /\ pc = "parse_yaml"
    /\ executions = 0
    /\ hung = {}
    /\ suite = 0
    /\ resources = << >>
    /\ ri = 0
    /\ rstate = << >>
    /\ createCalls = << >>
    /\ deleteCalls = << >>
    /\ settled = FALSE
    /\ entered = FALSE
    /\ exc = "None"
    /\ InitPool
    /\ InitReport
    /\ InitBody
    /\ call = NoCall
    /\ ret = "None"
    /\ config_data \in ConfigDocuments
    /\ tests_suites = << >>
    /\ InitMatrix
    /\ InitRemap

\* config_data = parse_yaml(config_file): if v.validate(data): return data
\* else: raise ValueError
main_parse_yaml ==
    /\ pc = "parse_yaml"
    /\ IF config_data.schema_valid
       THEN pc' = "load_clusters" /\ UNCHANGED exc
       ELSE pc' = "raised" /\ exc' = "ValueError"
    /\ UNCHANGED << max_workers, plan, lifecycleVars, poolVars, unitVars >>

\* clusters = load_clusters_from_config(...), then
\* sources, destinations = generate_test_matrix(clusters): the clusters are
\* read, nothing is created; either call may raise
main_load_clusters ==
    /\ pc = "load_clusters"
    /\ \E raised \in {"None", "FileNotFoundError", "TypeError"} :
         IF raised = "None"
         THEN pc' = "generate_test_suite" /\ UNCHANGED exc
         ELSE pc' = "raised" /\ exc' = raised
    /\ UNCHANGED << max_workers, plan, lifecycleVars, poolVars, unitVars >>

\* variant: a declaration is taken as it is
ResourceError_unchecked(resource) == "None"

\* what the loop body of generate_test_suite raises for a declaration
ResourceError(resource) ==
    IF resource.type \notin ResourceKinds THEN "ValueError"
    ELSE IF resource.cluster \notin ClusterNames THEN "KeyError"
    ELSE "None"

\* generate_test_suite: every resource of every test case in turn, from
\* resource r of test case t on; the first exception ends the loops
RECURSIVE generate_test_suite(_, _, _, _)
generate_test_suite(test_cases, t, r, test_suites) ==
    IF t > Len(test_cases) THEN [raised |-> "None", test_suites |-> test_suites]
    ELSE IF r > Len(test_cases[t])
    THEN generate_test_suite(test_cases, t + 1, 1, test_suites)
    ELSE LET raised == ResourceError(test_cases[t][r])
         IN  IF raised # "None"
             THEN [raised |-> raised, test_suites |-> << >>]
             ELSE generate_test_suite(test_cases, t, r + 1,
                      [test_suites EXCEPT ![t] = Append(@, test_cases[t][r].type)])

\* tests_suites = generate_test_suite(config_data.get("tests", []), clusters)
main_generate_test_suite ==
    /\ pc = "generate_test_suite"
    /\ LET built == generate_test_suite(config_data.tests, 1, 1,
                        [t \in DOMAIN config_data.tests |-> << >>])
       IN  IF built.raised = "None"
           THEN /\ tests_suites' = built.test_suites
                /\ pc' = "for"
                /\ UNCHANGED exc
           ELSE /\ exc' = built.raised
                /\ pc' = "raised"
                /\ UNCHANGED tests_suites
    /\ UNCHANGED << max_workers, plan, lifecycleVars, poolVars, deleteVars, hung,
                    config_data, matrixVars, remapVars,
                    reportVars, bodyVars >>

\* variant: the for statement is left after the first suite
main_for_declared_once ==
    /\ pc = "for"
    /\ IF suite < Len(tests_suites) /\ suite < 1
       THEN EnterSuite(tests_suites[suite + 1])
       ELSE /\ pc' = "done"
            /\ UNCHANGED << suite, resources, ri, rstate, createCalls,
                            deleteCalls, settled, entered, poolVars >>
    /\ UNCHANGED << max_workers, plan, exc, executions, unitVars >>

\* for test_name, test_resources in tests_suites: the next suite of the
\* list, or the list is exhausted
main_for_declared ==
    /\ pc = "for"
    /\ IF suite < Len(tests_suites)
       THEN EnterSuite(tests_suites[suite + 1])
       ELSE /\ pc' = "done"
            /\ UNCHANGED << suite, resources, ri, rstate, createCalls,
                            deleteCalls, settled, entered, poolVars >>
    /\ UNCHANGED << max_workers, plan, exc, executions, unitVars >>

NextMain ==
    \/ main_parse_yaml
    \/ main_load_clusters
    \/ main_generate_test_suite
    \/ main_for_declared
    \/ SuiteSteps

SpecMain == InitMain /\ [][NextMain]_vars

(***************************************************************************)
(* run_tests called on its own, its threads scheduled fairly: the main     *)
(* thread and every worker thread that can take a step eventually takes    *)
(* it. A probe call that blocks is the environment's choice, not a step    *)
(* the scheduler owes.                                                     *)
(***************************************************************************)
InitHang ==
    /\ max_workers \in (1..MaxWorkersParam) \cup {DefaultMaxWorkers}
    /\ plan \in TestPlans
    /\ pc = "build"
    /\ executions = 0
    /\ hung = {}
    /\ suite = 0
    /\ resources = << >>
    /\ ri = 0
    /\ rstate = << >>
    /\ createCalls = << >>
    /\ deleteCalls = << >>
    /\ settled = FALSE
    /\ entered = FALSE
    /\ exc = "None"
    /\ InitPool
    /\ InitReport
    /\ InitBody
    /\ call = NoCall
    /\ ret = "None"
    /\ InitConfig
    /\ InitMatrix
    /\ InitRemap

NextHang ==
    \/ run_tests_build
    \/ executor_submit
    \/ \E i \in DOMAIN fut : Test_run_begin(i)
    \/ \E i \in DOMAIN fut : probe_hangs(i)
    \/ \E i \in DOMAIN fut : Test_run_end(i)
    \/ \E i \in DOMAIN fut : as_completed_next(i)
    \/ run_tests_return

FairHang ==
    /\ WF_vars(run_tests_build)
    /\ WF_vars(executor_submit)
    /\ \A i \in 1..MaxTests : WF_vars(i \in DOMAIN fut /\ Test_run_begin(i))
    /\ \A i \in 1..MaxTests : WF_vars(i \in DOMAIN fut /\ Test_run_end(i))
    /\ \A i \in 1..MaxTests : WF_vars(i \in DOMAIN fut /\ as_completed_next(i))
    /\ WF_vars(run_tests_return)

SpecHang == InitHang /\ [][NextHang]_vars /\ FairHang

(***************************************************************************)
(* A resource's delete called on its own, with either value of             *)
(* exception_on_not_found.                                                 *)
(***************************************************************************)
DeleteCalls ==
    [ kind : ResourceKinds,
      namespace : {"None", "", "default"},
      name : {"None", "", "policy"},
      status : ApiStatuses,
      exception_on_not_found : BOOLEAN ]

InitDelete ==
    /\ max_workers = DefaultMaxWorkers
    /\ plan = << >>
    /\ InitLifecycle
    /\ InitPool
    /\ InitReport
    /\ InitBody
    /\ call \in DeleteCalls
    /\ ret = "None"
    /\ InitConfig
    /\ InitMatrix
    /\ InitRemap

\* resource.delete(exception_on_not_found) against an API answering call.status
delete_call ==
    /\ ret = "None"
    /\ call # NoCall
    /\ ret' = ResourceDelete(call.kind, call.namespace, call.name, call.status,
                             call.exception_on_not_found)
    /\ UNCHANGED << max_workers, plan, pc, lifecycleVars, exc, poolVars, call,
                    hung, configVars, matrixVars, remapVars,
                    reportVars, bodyVars >>

NextDelete == delete_call

SpecDelete == InitDelete /\ [][NextDelete]_vars

(***************************************************************************)
(* remap_ip called on its own.                                             *)
(***************************************************************************)
\* 10.2.0.5, 192.168.1.77, 172.16.254.1, 10.71.3.9, 0.0.0.0, 255.255.255.255
V4Samples ==
    { << 10, 2, 0, 5 >>, << 192, 168, 1, 77 >>, << 172, 16, 254, 1 >>,
      << 10, 71, 3, 9 >>, << 0, 0, 0, 0 >>, << 255, 255, 255, 255 >> }

\* the values of "::1" and of "1::"
V6Samples == { << 1 >>, << 1 >> \o [k \in 1..112 |-> 0] }

AddressTexts ==
    [form : {"v4"}, octets : V4Samples]
        \cup [form : {"v6"}, bits : V6Samples]
        \cup {[form |-> "bad"]}

\* "a.b.c.d/L", "a.b.c.d" (no prefix length: one address), IPv6 networks,
\* and a text ip_network rejects ("10.0.0.0/33", "10.0.0/8", "")
CidrTexts ==
    [form : {"v4"}, octets : V4Samples, prefixlen : 0..32, slash : {TRUE}]
        \cup [form : {"v4"}, octets : V4Samples, prefixlen : {32}, slash : {FALSE}]
        \cup [form : {"v6"}, bits : V6Samples, prefixlen : {0, 16, 64, 128},
              slash : {TRUE}]
        \cup {[form |-> "bad"]}

InitRemapCall ==
    /\ max_workers = DefaultMaxWorkers
    /\ plan = << >>
    /\ InitLifecycle
    /\ InitPool
    /\ InitReport
    /\ InitBody
    /\ call = NoCall
    /\ ret = "None"
    /\ InitConfig
    /\ InitMatrix
    /\ remap_call \in [original_ip : AddressTexts, remapped_cidr : CidrTexts]
    /\ remap_ret = [form |-> "none"]

remap_ip_call ==
    /\ remap_ret.form = "none"
    /\ remap_call.original_ip.form # "none"
    /\ remap_ret' = remap_ip(remap_call.original_ip, remap_call.remapped_cidr)
    /\ UNCHANGED << max_workers, plan, pc, lifecycleVars, exc, poolVars,
                    deleteVars, hung, configVars, matrixVars, remap_call,
                    reportVars, bodyVars >>

NextRemap == remap_ip_call

SpecRemap == InitRemapCall /\ [][NextRemap]_vars

(***************************************************************************)
(* run_tests' matrix loops (tests/execution.py 107-153), called with the   *)
(* lists generate_test_matrix builds from a cluster inventory.             *)
(***************************************************************************)
Pod(cluster_name, namespace, name, octets) ==
    [ type |-> "pod", test_suite |-> << "ping", "curl" >>, name |-> name,
      namespace |-> namespace, cluster_name |-> cluster_name,
      ip |-> [form |-> "v4", octets |-> octets] ]

Service(cluster_name, namespace, name, octets) ==
    [ type |-> "service", test_suite |-> << "curl" >>, name |-> name,
      namespace |-> namespace, cluster_name |-> cluster_name,
      ip |-> [form |-> "v4", octets |-> octets] ]

internet ==
    [ type |-> "external", test_suite |-> << "ping" >>, name |-> "internet",
      namespace |-> "", cluster_name |-> "None",
      ip |-> [form |-> "v4", octets |-> << 8, 8, 8, 8 >>] ]

nameserver ==
    [ type |-> "external", test_suite |-> << "nslookup" >>,
      name |-> "nameserver", namespace |-> "", cluster_name |-> "None",
      ip |-> [form |-> "none"] ]

\* the pods and services the clusters may hold: two pods of one name in two
\* namespaces of A, a pod of that name and another one in B, a service each
PodSamples ==
    << Pod("A", "default", "p1", << 10, 0, 0, 4 >>),
       Pod("A", "other", "p1", << 10, 0, 0, 6 >>),
       Pod("B", "default", "p1", << 10, 2, 0, 4 >>),
       Pod("B", "default", "p2", << 10, 2, 0, 5 >>) >>

ServiceSamples ==
    << Service("A", "default", "s1", << 10, 96, 0, 1 >>),
       Service("B", "default", "s1", << 10, 97, 0, 1 >>) >>

Cidr(octets, prefixlen) ==
    [form |-> "v4", octets |-> octets, prefixlen |-> prefixlen, slash |-> TRUE]

\* the remapped_cidrs dict a cluster may hold: get_remapped_cidrs leaves a
\* peer out when no usable Network resource names it
RemapTables(cluster_name) ==
    IF cluster_name = "A"
    THEN { << >>, [c \in {"B"} |-> Cidr(<< 10, 1, 0, 0 >>, 16)],
           [c \in {"B"} |-> Cidr(<< 10, 71, 3, 9 >>, 20)] }
    ELSE { << >>, [c \in {"A"} |-> Cidr(<< 10, 3, 0, 0 >>, 16)] }

\* the elements of seq whose index is in keep, in order
RECURSIVE Selected(_, _, _)
Selected(seq, keep, k) ==
    IF k > Len(seq) THEN << >>
    ELSE (IF k \in keep THEN << seq[k] >> ELSE << >>) \o Selected(seq, keep, k + 1)

InitMatrixCall ==
    /\ max_workers = DefaultMaxWorkers
    /\ plan = << >>
    /\ pc = "build"
    /\ executions = 0
    /\ hung = {}
    /\ suite = 0
    /\ resources = << >>
    /\ ri = 0
    /\ rstate = << >>
    /\ createCalls = << >>
    /\ deleteCalls = << >>
    /\ settled = FALSE
    /\ entered = FALSE
    /\ exc = "None"
    /\ InitPool
    /\ InitReport
    /\ InitBody
    /\ call = NoCall
    /\ ret = "None"
    /\ InitConfig
    /\ InitRemap
    /\ \E pods \in SUBSET DOMAIN PodSamples, services \in SUBSET DOMAIN ServiceSamples :
         /\ sources = Selected(PodSamples, pods, 1)
         /\ destinations = Selected(PodSamples, pods, 1)
                              \o Selected(ServiceSamples, services, 1)
                              \o << internet, nameserver >>
    /\ clusters \in [ClusterNames -> RemapTables("A") \cup RemapTables("B")]
    /\ \A c \in ClusterNames : clusters[c] \in RemapTables(c)

\* "p" + destination.name[1:]
dst_hostname(name) ==
    CASE name = "s1" -> "p1"
      [] name = "internet" -> "pnternet"
      [] name = "nameserver" -> "pameserver"
      [] OTHER -> name

\* the Test appended for (source, destination, test_type); source and
\* destination record the loop variables it was appended for
Test(test_type, source, destination, target_ip, kubeconfig_location) ==
    [ test_type           |-> test_type,
      src_ip              |-> source.ip,
      dst_ip              |-> target_ip,
      src_name            |-> source.name,
      src_namespace       |-> source.namespace,
      dst_name            |-> destination.name,
      dst_cluster_name    |-> destination.cluster_name,
      dst_hostname        |-> dst_hostname(destination.name),
      kubeconfig_location |-> kubeconfig_location,
      result              |-> "None",
      source              |-> source,
      destination         |-> destination ]

\* variant: nothing is skipped as a test to self
SkipSelf_never(source, destination) == FALSE

\* if source.name == destination.name: continue
SkipSelf(source, destination) == source.name = destination.name

\* variant: services of other clusters are tested too
SkipRemoteService_never(source, destination) == FALSE

\* if destination.type == "service" and source.cluster_name !=
\* destination.cluster_name: continue
SkipRemoteService(source, destination) ==
    /\ destination.type = "service"
    /\ source.cluster_name # destination.cluster_name

\* if destination.cluster_name and source.cluster_name != destination.cluster_name
IsRemote(source, destination) ==
    /\ ~Falsy(destination.cluster_name)
    /\ source.cluster_name # destination.cluster_name

\* variant: the destination's own address whatever the clusters
TargetIp_local(source, destination, cidrs) ==
    [raised |-> "None", ip |-> destination.ip]

\* target_ip = destination.ip, remapped for a destination of another
\* cluster; the dict lookup raises KeyError for a peer that is not a key
TargetIp(source, destination, cidrs) ==
    IF IsRemote(source, destination)
    THEN IF destination.cluster_name \in DOMAIN cidrs[source.cluster_name]
         THEN LET target_ip == remap_ip(destination.ip,
                                  cidrs[source.cluster_name][destination.cluster_name])
              IN  [raised |-> IF target_ip.form = "ValueError"
                              THEN "ValueError" ELSE "None",
                   ip |-> target_ip]
         ELSE [raised |-> "KeyError", ip |-> destination.ip]
    ELSE [raised |-> "None", ip |-> destination.ip]

\* the body of the two loops for one pair: the tests it appends, or the
\* exception it raises
PairTests(source, destination, cidrs, configs) ==
    IF SkipSelf(source, destination) \/ SkipRemoteService(source, destination)
    THEN [raised |-> "None", tests |-> << >>]
    ELSE LET target == TargetIp(source, destination, cidrs)
         IN  IF target.raised # "None"
             THEN [raised |-> target.raised, tests |-> << >>]
             ELSE [raised |-> "None",
                   tests |-> [k \in 1..Len(destination.test_suite) |->
                                Test(destination.test_suite[k], source, destination,
                                     target.ip, configs[source.cluster_name])]]

\* variant: the outer loop is over the destinations
RECURSIVE MatrixLoops_destination_major(_, _, _, _, _, _)
MatrixLoops_destination_major(k, acc, srcs, dsts, cidrs, configs) ==
    IF k > Len(srcs) * Len(dsts) THEN [raised |-> "None", tests |-> acc]
    ELSE LET source == srcs[((k - 1) % Len(srcs)) + 1]
             destination == dsts[((k - 1) \div Len(srcs)) + 1]
             pair == PairTests(source, destination, cidrs, configs)
         IN  IF pair.raised # "None"
             THEN [raised |-> pair.raised, tests |-> acc]
             ELSE MatrixLoops_destination_major(k + 1, acc \o pair.tests, srcs, dsts,
                                                cidrs, configs)

\* for source in sources: for destination in destinations: ..., from the
\* k-th pair on; the first exception ends the loops
RECURSIVE MatrixLoops(_, _, _, _, _, _)
MatrixLoops(k, acc, srcs, dsts, cidrs, configs) ==
    IF k > Len(srcs) * Len(dsts) THEN [raised |-> "None", tests |-> acc]
    ELSE LET source == srcs[((k - 1) \div Len(dsts)) + 1]
             destination == dsts[((k - 1) % Len(dsts)) + 1]
             pair == PairTests(source, destination, cidrs, configs)
         IN  IF pair.raised # "None"
             THEN [raised |-> pair.raised, tests |-> acc]
             ELSE MatrixLoops(k + 1, acc \o pair.tests, srcs, dsts, cidrs, configs)

\* run_tests up to the executor: the dicts, then the loops
run_tests_loops ==
    /\ pc = "build"
    /\ LET cidrs == [c \in DOMAIN clusters |-> clusters[c]]
           configs == [c \in DOMAIN clusters |-> "kubeconfig-" \o c]
           built == MatrixLoops(1, << >>, sources, destinations, cidrs, configs)
       IN  /\ remapped_cidrs' = cidrs
           /\ kubeconfigs' = configs
           /\ IF built.raised = "None"
              THEN /\ tests' = built.tests
                   /\ fut' = [i \in 1..Len(built.tests) |-> "new"]
                   /\ runs' = [i \in 1..Len(built.tests) |-> 0]
                   /\ pc' = "submit"
                   /\ UNCHANGED << exc, run_tests_ended >>
              ELSE /\ exc' = built.raised
                   /\ run_tests_ended' = "raised"
                   /\ pc' = "raised"
                   /\ UNCHANGED << tests, fut, runs >>
    /\ UNCHANGED << max_workers, plan, lifecycleVars, submitted, yielded, results,
                    unitVars >>

NextMatrix == run_tests_loops

SpecMatrix == InitMatrixCall /\ [][NextMatrix]_vars

(***************************************************************************)
(* The report: main folds the results into a nested dict, dumps it with    *)
(* the descriptors as JSON, prints the matrix (main.py 26-52, output.py);  *)
(* table.py prints the matrix again from the JSON document.                *)
(*                                                                         *)
(* A dict is a function from its keys; {} is << >>. A printed string is    *)
(* the sequence of its characters, an ANSI escape sequence being one       *)
(* element that takes no room on the terminal.                             *)
(***************************************************************************)
\* a report is made of at most this many results
MaxReportTests == 2

\* the fields of tests.types.TestEntity and of tests.execution.TestEntity
TypesEntityFields == {"type", "test_suite", "ip", "name", "namespace", "cluster_name"}
ExecutionEntityFields == TypesEntityFields \cup {"color"}

\* TestEntity(...) of the given module
TestEntity(module, type, test_suite, name, namespace, cluster_name, ip) ==
    IF module = "tests.execution"
    THEN [type |-> type, test_suite |-> test_suite, ip |-> ip, name |-> name,
          namespace |-> namespace, cluster_name |-> cluster_name, color |-> "None"]
    ELSE [type |-> type, test_suite |-> test_suite, ip |-> ip, name |-> name,
          namespace |-> namespace, cluster_name |-> cluster_name]

\* what generate_test_matrix returns for two clusters holding a pod each and
\* a service: sources = pods, destinations = pods + services + externals
ReportPods(module) ==
    << TestEntity(module, "pod", << "ping", "curl" >>, "p1", "default", "A", "10.1.0.1"),
       TestEntity(module, "pod", << "ping", "curl" >>, "p1", "default", "B", "10.2.0.1") >>

ReportServices(module) ==
    << TestEntity(module, "service", << "curl" >>, "s1", "default", "A", "10.96.0.9") >>

ReportExternals(module) ==
    << TestEntity(module, "external", << "ping" >>, "internet", "", "None", "8.8.8.8"),
       TestEntity(module, "external", << "nslookup" >>, "nameserver", "", "None", "None") >>

ReportSources(module) == ReportPods(module)

ReportDestinations(module) ==
    ReportPods(module) \o ReportServices(module) \o ReportExternals(module)

\* the registry's attributes that main dumps
ReportClusters ==
    [A |-> [name |-> "A", kubeconfig_location |-> "a.yaml",
            namespaces |-> << "default" >>, color |-> "44"],
     B |-> [name |-> "B", kubeconfig_location |-> "b.yaml",
            namespaces |-> << "default" >>, color |-> "None"]]

\* a Test of the given module, run: tests.types.Test holds the two
\* entities, tests.execution.Test holds their attributes
ReportTest(module, test_type, src, dst, result) ==
    IF module = "tests.execution"
    THEN [test_type |-> test_type, src_ip |-> src.ip, dst_ip |-> dst.ip,
          src_name |-> src.name, src_namespace |-> src.namespace,
          dst_name |-> dst.name, dst_cluster_name |-> dst.cluster_name,
          dst_hostname |-> dst.name, kubeconfig_location |-> "a.yaml",
          result |-> result]
    ELSE [test_type |-> test_type, src |-> src, dst |-> dst,
          kubeconfig_location |-> "a.yaml", result |-> result]

\* every result a run of the given module may hand to the report: a probe
\* of each kind the destination declares, ended True, False or not at all
ReportTests(module) ==
    UNION { { ReportTest(module, ReportDestinations(module)[d].test_suite[k],
                         ReportSources(module)[s], ReportDestinations(module)[d],
                         result) :
                s \in DOMAIN ReportSources(module),
                k \in DOMAIN ReportDestinations(module)[d].test_suite,
                result \in {"True", "False", "None"} } :
            d \in DOMAIN ReportDestinations(module) }

\* the lists of at most n results
ReportLists(module, n) ==
    UNION { [1..m -> ReportTests(module)] : m \in 0..n }

\* d.get(k, {})
Get(d, k) == IF k \in DOMAIN d THEN d[k] ELSE << >>

\* d[k] = v
SetItem(d, k, v) == [x \in DOMAIN d \cup {k} |-> IF x = k THEN v ELSE d[x]]

\* variant: each level of the path is set to a new dict
RECURSIVE SetPath_fresh(_, _, _)
SetPath_fresh(d, path, v) ==
    IF Len(path) = 1
    THEN SetItem(d, path[1], v)
    ELSE SetItem(d, path[1], SetPath_fresh(<< >>, Tail(path), v))

\* if k1 not in d: d[k1] = {}; if k2 not in d[k1]: d[k1][k2] = {}; ...;
\* d[k1][k2]...[kn] = v
RECURSIVE SetPath(_, _, _)
SetPath(d, path, v) ==
    IF Len(path) = 1
    THEN SetItem(d, path[1], v)
    ELSE SetItem(d, path[1], SetPath(Get(d, path[1]), Tail(path), v))

\* the keys create_results_map files a test under
ResultPath(test) ==
    << test.src.cluster_name, test.src.namespace, test.src.name,
       test.dst.cluster_name, test.dst.namespace, test.dst.name, test.test_type >>

\* create_results_map's loop from test k on; test.src of a Test that has no
\* such attribute raises AttributeError
RECURSIVE create_results_map_loop(_, _, _)
create_results_map_loop(tests_, k, results_dict) ==
    IF k > Len(tests_)
    THEN [raised |-> "None", value |-> results_dict]
    ELSE IF "src" \notin DOMAIN tests_[k]
         THEN [raised |-> "AttributeError", value |-> << >>]
         ELSE create_results_map_loop(tests_, k + 1,
                  SetPath(results_dict, ResultPath(tests_[k]), tests_[k].result))

create_results_map(tests_) == create_results_map_loop(tests_, 1, << >>)

\* an escape sequence "\x1b[<code>m", and a printed character
Esc(code) == [esc |-> TRUE, v |-> code]
Ch(c) == [esc |-> FALSE, v |-> c]

get_single_result_cell(result) ==
    CASE result = "True" -> << Esc("42"), Ch(" "), Ch("Y"), Ch(" "), Esc("0") >>
      [] result = "False" -> << Esc("41"), Ch(" "), Ch("N"), Ch(" "), Esc("0") >>
      [] OTHER -> << Ch(" "), Ch(" "), Ch(" ") >>

\* test_results.get(kind): None when the dict has no such key
GetResult(test_results, kind) ==
    IF kind \in DOMAIN test_results THEN test_results[kind] ELSE "None"

\* the probe kinds a cell shows, in order
ResultsList == << "ping", "curl" >>

\* "".join(strings)
RECURSIVE Join(_)
Join(strings) ==
    IF strings = << >> THEN << >> ELSE Head(strings) \o Join(Tail(strings))

\* test_results is None ([is_none |-> TRUE]) or a dict
get_result_cell(test_results) ==
    IF test_results.is_none \/ DOMAIN test_results.value = {}
    THEN << >>
    ELSE Join([k \in DOMAIN ResultsList |->
                 get_single_result_cell(GetResult(test_results.value, ResultsList[k]))])

\* results.get(source.cluster_name, {}). ... .get(destination.name)
PairResults(results_, source, destination) ==
    LET d == Get(Get(Get(Get(Get(results_, source.cluster_name), source.namespace),
                         source.name), destination.cluster_name),
                 destination.namespace)
    IN  IF destination.name \in DOMAIN d
        THEN [is_none |-> FALSE, value |-> d[destination.name]]
        ELSE [is_none |-> TRUE]

\* the name is printed as it is: one element
format_header_color(destination, clusters_) ==
    LET color == IF destination.cluster_name \notin {"None", ""}
                 THEN clusters_[destination.cluster_name].color
                 ELSE "None"
    IN  IF color \in {"None", ""}
        THEN << Ch(" "), Ch(destination.name), Ch(" ") >>
        ELSE << Esc(color), Ch(" "), Ch(destination.name), Ch(" "), Esc("0") >>

get_formatted_results(results_, sources_, destinations_, clusters_) ==
    [s \in DOMAIN sources_ |->
        << format_header_color(sources_[s], clusters_) >>
            \o [d \in DOMAIN destinations_ |->
                  get_result_cell(PairResults(results_, sources_[s], destinations_[d]))]]

\* the JSON encoder: a None key becomes the string "null", a None value
\* the literal null, a bool the literal true or false
json_key(k) == IF k = "None" THEN "null" ELSE k

json_value(v) ==
    CASE v = "None" -> [t |-> "null"]
      [] v = "True" -> [t |-> "true"]
      [] v = "False" -> [t |-> "false"]
      [] OTHER -> [t |-> "string", v |-> v]

\* the JSON decoder
json_load_value(j) ==
    CASE j.t = "null" -> "None"
      [] j.t = "true" -> "True"
      [] j.t = "false" -> "False"
      [] OTHER -> j.v

\* json.dump of a dict nested to the given depth (keys that encode to the
\* same string: one of them is read back)
RECURSIVE json_dump_dict(_, _)
json_dump_dict(d, depth) ==
    IF depth = 0
    THEN json_value(d)
    ELSE [k \in {json_key(x) : x \in DOMAIN d} |->
            json_dump_dict(d[CHOOSE x \in DOMAIN d : json_key(x) = k], depth - 1)]

RECURSIVE json_load_dict(_, _)
json_load_dict(j, depth) ==
    IF depth = 0
    THEN json_load_value(j)
    ELSE [k \in DOMAIN j |-> json_load_dict(j[k], depth - 1)]

\* the depth of the results map
MapDepth == 7

\* json.dump of asdict(entity), and of a cluster's dumped attributes: the
\* lists are arrays of strings
json_dump_object(x) ==
    [f \in DOMAIN x |->
        IF f \in {"test_suite", "namespaces"} THEN x[f] ELSE json_value(x[f])]

json_load_object(j) ==
    [f \in DOMAIN j |->
        IF f \in {"test_suite", "namespaces"} THEN j[f] ELSE json_load_value(j[f])]

\* table.py's TestEntity(**x), of tests.types: a key that is no field of
\* the dataclass, or a missing field, raises TypeError
TableEntity(j) ==
    IF DOMAIN j = TypesEntityFields
    THEN [raised |-> "None", value |-> json_load_object(j)]
    ELSE [raised |-> "TypeError"]

\* main.py 31-50: the document json.dump writes
Dumped(module) ==
    [written |-> TRUE,
     results_map |-> json_dump_dict(results_map, MapDepth),
     sources |-> [k \in DOMAIN ReportSources(module) |->
                    json_dump_object(ReportSources(module)[k])],
     destinations |-> [k \in DOMAIN ReportDestinations(module) |->
                         json_dump_object(ReportDestinations(module)[k])],
     clusters |-> [x \in DOMAIN ReportClusters |-> json_dump_object(ReportClusters[x])]]

\* a run's results are reported: the Test and TestEntity classes are those
\* of tests.types or those of tests.execution, -o is given or not
InitReportCall ==
    /\ max_workers = DefaultMaxWorkers
    /\ plan = << >>
    /\ InitLifecycle
    /\ InitPool
    /\ call = NoCall
    /\ ret = "None"
    /\ InitConfig
    /\ InitMatrix
    /\ InitRemap
    /\ InitBody
    /\ \E module \in {"tests.types", "tests.execution"} :
           report_call \in [module : {module},
                            output_path : {"None", "out.json"},
                            tests : ReportLists(module, MaxReportTests)]
    /\ report_pc = "map"
    /\ results_map = << >>
    /\ document = NoDocument
    /\ rows = << >>
    /\ table_ret = NoTable

\* results_map = create_results_map(results)
main_create_results_map ==
    /\ report_pc = "map"
    /\ LET made == create_results_map(report_call.tests)
       IN  IF made.raised = "None"
           THEN /\ results_map' = made.value
                /\ report_pc' = "dump"
           ELSE /\ report_pc' = "raised"
                /\ UNCHANGED results_map
    /\ UNCHANGED << max_workers, plan, pc, lifecycleVars, exc, poolVars,
                    deleteVars, hung, configVars, matrixVars, remapVars,
                    bodyVars, report_call, document, rows, table_ret >>

\* if output_path: json.dump({...}, f, indent=2)
main_json_dump ==
    /\ report_pc = "dump"
    /\ document' = IF report_call.output_path \notin {"None", ""}
                   THEN Dumped(report_call.module)
                   ELSE document
    /\ report_pc' = "print"
    /\ UNCHANGED << max_workers, plan, pc, lifecycleVars, exc, poolVars,
                    deleteVars, hung, configVars, matrixVars, remapVars,
                    bodyVars, report_call, results_map, rows, table_ret >>

\* print_results(results_map, sources, destinations, clusters)
main_print_results ==
    /\ report_pc = "print"
    /\ rows' = get_formatted_results(results_map, ReportSources(report_call.module),
                                     ReportDestinations(report_call.module),
                                     ReportClusters)
    /\ report_pc' = "done"
    /\ UNCHANGED << max_workers, plan, pc, lifecycleVars, exc, poolVars,
                    deleteVars, hung, configVars, matrixVars, remapVars,
                    bodyVars, report_call, results_map, document, table_ret >>

\* python table.py out.json
table_main ==
    /\ report_pc = "done"
    /\ document.written
    /\ table_ret = NoTable
    /\ LET loaded_sources == [k \in DOMAIN document.sources |->
                                TableEntity(document.sources[k])]
           loaded_destinations == [k \in DOMAIN document.destinations |->
                                     TableEntity(document.destinations[k])]
           loaded_clusters == [x \in DOMAIN document.clusters |->
                                 json_load_object(document.clusters[x])]
       IN  IF \E k \in DOMAIN loaded_sources : loaded_sources[k].raised # "None"
           THEN table_ret' = [raised |-> "TypeError"]
           ELSE IF \E k \in DOMAIN loaded_destinations :
                       loaded_destinations[k].raised # "None"
                THEN table_ret' = [raised |-> "TypeError"]
                ELSE table_ret' =
                       [raised |-> "None",
                        rows |-> get_formatted_results(
                                   json_load_dict(document.results_map, MapDepth),
                                   [k \in DOMAIN loaded_sources |-> loaded_sources[k].value],
                                   [k \in DOMAIN loaded_destinations |->
                                      loaded_destinations[k].value],
                                   loaded_clusters)]
    /\ UNCHANGED << max_workers, plan, pc, lifecycleVars, exc, poolVars,
                    deleteVars, hung, configVars, matrixVars, remapVars,
                    bodyVars, report_call, report_pc, results_map, document, rows >>

NextReport ==
    \/ main_create_results_map
    \/ main_json_dump
    \/ main_print_results
    \/ table_main

SpecReport == InitReportCall /\ [][NextReport]_vars

(***************************************************************************)
(* The bodies of the test resources (resources/test): the isolation        *)
(* network policy and the tunnel firewall rule, built from the resource's  *)
(* options and the clusters the options refer to.                          *)
(***************************************************************************)
\* an option's list and the registry hold at most this many items
MaxBodyItems == 2

\* the attributes of a Cluster the builders read
BodyCluster(name, remapped_cidrs_, local_offloaded_pods) ==
    [name |-> name, remapped_cidrs |-> remapped_cidrs_,
     local_offloaded_pods |-> local_offloaded_pods]

\* clusters A and B as Cluster.__init__ fetched them: A's remap table with
\* or without an entry for B, pods offloaded from B to A or none
BodyClusterSamples ==
    { BodyCluster("A", << >>, << >>),
      BodyCluster("A", [B |-> "10.71.0.0/16"], [B |-> << "10.1.0.7", "10.1.0.8" >>]),
      BodyCluster("A", [B |-> "10.71.0.0/16"], [B |-> << "10.1.0.8", "10.1.0.8" >>]),
      BodyCluster("B", [A |-> "10.72.0.0/16"], << >>) }

\* options["clusters"]: the list of Cluster objects the builders declare,
\* or the dict keyed by cluster name that generate_test_suite passes
Registries ==
    { registry \in [shape : {"list", "dict"},
                    items : UNION { [1..n -> BodyClusterSamples] : n \in 0..MaxBodyItems }] :
        registry.shape = "dict" =>
            \A j, k \in DOMAIN registry.items :
                j # k => registry.items[j].name # registry.items[k].name }

\* the lists of at most n items of a set
Lists(S, n) == UNION { [1..m -> S] : m \in 0..n }

\* the options of a resource of the configuration: "cluster", which
\* generate_test_suite sets, and any of the optional keys
Options(keys, optional) ==
    UNION { { [k \in {"cluster"} \cup present |->
                 IF k \in present THEN o[k] ELSE cluster] :
              o \in optional, cluster \in {"A", "B"} } :
            present \in SUBSET keys }

\* self.options.get(key, default)
OptionsGet(options, key, default) ==
    IF key \in DOMAIN options THEN options[key] ELSE default

\* None, "", [] and {} are false
Truthy(v) == v \notin {"None", "", "False"}

\* for c in clusters: if c.name == cluster: current_cluster = c; break
\* if not current_cluster: raise ValueError
\* (iterating a dict gives its keys, and a str has no attribute name)
CurrentCluster(registry, cluster) ==
    IF registry.items = << >>
    THEN [raised |-> "ValueError"]
    ELSE IF registry.shape = "dict"
         THEN [raised |-> "AttributeError"]
         ELSE IF \E k \in DOMAIN registry.items : registry.items[k].name = cluster
              THEN [raised |-> "None",
                    value |-> registry.items[
                        CHOOSE k \in DOMAIN registry.items :
                            /\ registry.items[k].name = cluster
                            /\ \A j \in 1..(k - 1) : registry.items[j].name # cluster]]
              ELSE [raised |-> "ValueError"]

\* the peers of a NetworkPolicy rule
PodSelector(direction) == [direction |-> direction, peer |-> "podSelector"]
NamespaceSelector(direction, ns) ==
    [direction |-> direction, peer |-> "namespaceSelector", name |-> ns]
IpBlock(direction, cidr) == [direction |-> direction, peer |-> "ipBlock", cidr |-> cidr]
IpBlockExcept(direction, cidr, except) ==
    [direction |-> direction, peer |-> "ipBlock", cidr |-> cidr, except |-> except]

\* variant: an allowed cluster gets an egress rule only
ClusterIngressRules_none(current_cluster, allowed_clusters) == << >>

\* [{"from": [{"ipBlock": {"cidr": current_cluster.remapped_cidrs[c]}}]} ...]
ClusterIngressRules(current_cluster, allowed_clusters) ==
    [k \in DOMAIN allowed_clusters |->
        IpBlock("from", current_cluster.remapped_cidrs[allowed_clusters[k]])]

\* IsolationNetworkPolicyResource._get_body_content
Isolation_get_body_content(options, registry) ==
    LET cluster == options.cluster
        allowed_cidrs == OptionsGet(options, "allowed_cidrs", << >>)
        allowed_namespaces == OptionsGet(options, "allowed_namespaces", << >>)
        allowed_clusters == OptionsGet(options, "allowed_clusters", << >>)
        found == CurrentCluster(registry, cluster)
    IN  IF found.raised # "None"
        THEN [raised |-> found.raised]
        ELSE IF \E k \in DOMAIN allowed_clusters :
                    allowed_clusters[k] \notin DOMAIN found.value.remapped_cidrs
             THEN [raised |-> "KeyError"]
             ELSE [raised |-> "None",
                   body |->
                     [kind |-> "NetworkPolicy",
                      egress |->
                        << PodSelector("to") >>
                        \o [k \in DOMAIN allowed_namespaces |->
                              NamespaceSelector("to", allowed_namespaces[k])]
                        \o [k \in DOMAIN allowed_cidrs |-> IpBlock("to", allowed_cidrs[k])]
                        \o [k \in DOMAIN allowed_clusters |->
                              IpBlock("to", found.value.remapped_cidrs[allowed_clusters[k]])]
                        \o << IpBlockExcept("to", "0.0.0.0/0",
                                << "10.0.0.0/8", "192.168.0.0/16", "172.16.0.0/20" >>) >>,
                      ingress |->
                        << PodSelector("from") >>
                        \o [k \in DOMAIN allowed_namespaces |->
                              NamespaceSelector("from", allowed_namespaces[k])]
                        \o [k \in DOMAIN allowed_cidrs |-> IpBlock("from", allowed_cidrs[k])]
                        \o ClusterIngressRules(found.value, allowed_clusters)]]

\* for pod in offloaded_pods: if pod.ip not in allowed_destination_ips:
\*     allowed_destination_ips.append(pod.ip)
RECURSIVE AppendOffloaded(_, _, _)
AppendOffloaded(allowed_destination_ips, offloaded_pods, k) ==
    IF k > Len(offloaded_pods)
    THEN allowed_destination_ips
    ELSE AppendOffloaded(
             IF offloaded_pods[k] \in Range(allowed_destination_ips)
             THEN allowed_destination_ips
             ELSE Append(allowed_destination_ips, offloaded_pods[k]),
             offloaded_pods, k + 1)

\* for c in clusters: if c.name != cluster: continue; ...
RECURSIVE OffloadedLoop(_, _, _, _, _)
OffloadedLoop(allowed_destination_ips, items, cluster, origin, k) ==
    IF k > Len(items)
    THEN allowed_destination_ips
    ELSE OffloadedLoop(
             IF items[k].name # cluster
             THEN allowed_destination_ips
             ELSE AppendOffloaded(allowed_destination_ips,
                                  Get(items[k].local_offloaded_pods, origin), 1),
             items, cluster, origin, k + 1)

\* the rules of the FirewallConfiguration
IpRule(position, ip) ==
    [action |-> "accept", match |-> "ip", position |-> position, value |-> ip, op |-> "eq"]
DevRule(position, dev, op) ==
    [action |-> "accept", match |-> "dev", position |-> position, value |-> dev, op |-> op]
EstablishedRule ==
    [action |-> "accept", match |-> "ctstate",
     states |-> << "established", "related" >>, op |-> "eq"]

\* accept_destination_rules = [{...} for ip in allowed_destination_ips]
DestinationRules(allowed_destination_ips) ==
    [k \in DOMAIN allowed_destination_ips |-> IpRule("dst", allowed_destination_ips[k])]

\* TunnelFirewallRuleResource._get_body_content: what it returns or raises,
\* and self.options when it ends
Tunnel_get_body_content(self, registry) ==
    LET options == self.options
        cluster == options.cluster
        allowed_destination_ips == OptionsGet(options, "allowed_destination_ips", << >>)
        allowed_source_ips == OptionsGet(options, "allowed_source_ips", << >>)
        allow_to_offloaded_pods_from ==
            OptionsGet(options, "allow_to_offloaded_pods_from", "None")
        allow_established == OptionsGet(options, "allow_established", "True")
        looped == Truthy(allow_to_offloaded_pods_from) /\ registry.items # << >>
        final == IF looped /\ registry.shape = "list"
                 THEN OffloadedLoop(allowed_destination_ips, registry.items, cluster,
                                    allow_to_offloaded_pods_from, 1)
                 ELSE allowed_destination_ips
        options_after ==
            IF "allowed_destination_ips" \in DOMAIN options
            THEN [options EXCEPT !["allowed_destination_ips"] =
                                     final]
            ELSE options
    IN  IF looped /\ registry.shape = "dict"
        THEN [raised |-> "AttributeError", options |-> options]
        ELSE [raised |-> "None",
              options |-> options_after,
              body |->
                [kind |-> "FirewallConfiguration",
                 table_name |-> "tunnel-firewall-table-" \o self.name,
                 filterRules |->
                   << DevRule("in", "liqo-tunnel", "neq"), DevRule("out", "eth0", "eq") >>
                   \o (IF Truthy(allow_established) THEN << EstablishedRule >> ELSE << >>)
                   \o DestinationRules(final)
                   \o [k \in DOMAIN allowed_source_ips |->
                         IpRule("src", allowed_source_ips[k])]]]

\* the isolation policies a configuration may declare
IsolationOptions ==
    Options({"allowed_cidrs", "allowed_namespaces", "allowed_clusters"},
            [allowed_cidrs : Lists({"203.0.113.0/24"}, 1),
             allowed_namespaces : Lists({"other"}, 1),
             allowed_clusters : Lists({"A", "B", "C"}, MaxBodyItems)])

\* the tunnel rules a configuration may declare
TunnelOptions ==
    Options({"allowed_destination_ips", "allowed_source_ips",
             "allow_to_offloaded_pods_from", "allow_established"},
            [allowed_destination_ips : Lists({"10.1.0.7", "10.1.0.9"}, MaxBodyItems),
             allowed_source_ips : Lists({"10.2.0.3"}, 1),
             allow_to_offloaded_pods_from : {"B", "C"},
             allow_established : {"False"}])

\* a resource generate_test_suite made (martrix.py 83-92)
BodyResources ==
    [kind : {"isolation_network_policy"}, name : {"policy"}, options : IsolationOptions]
        \cup [kind : {"tunnel_firewall_rule"}, name : {"rule"}, options : TunnelOptions]

InitBodyCall ==
    /\ max_workers = DefaultMaxWorkers
    /\ plan = << >>
    /\ InitLifecycle
    /\ InitPool
    /\ call = NoCall
    /\ ret = "None"
    /\ InitConfig
    /\ InitMatrix
    /\ InitRemap
    /\ InitReport
    /\ body_self \in BodyResources
    /\ body_clusters \in Registries
    /\ body_ret = NoBody

\* IsolationNetworkPolicyResource: self._get_body_content()
isolation_get_body_content ==
    /\ body_ret = NoBody
    /\ body_self.kind = "isolation_network_policy"
    /\ body_ret' = Isolation_get_body_content(body_self.options, body_clusters)
    /\ UNCHANGED << max_workers, plan, pc, lifecycleVars, exc, poolVars,
                    deleteVars, hung, configVars, matrixVars, remapVars,
                    reportVars, body_self, body_clusters >>

\* TunnelFirewallRuleResource: self._get_body_content()
tunnel_get_body_content ==
    /\ body_ret = NoBody
    /\ body_self.kind = "tunnel_firewall_rule"
    /\ LET built == Tunnel_get_body_content(body_self, body_clusters)
       IN  /\ body_ret' = IF built.raised = "None"
                          THEN [raised |-> "None", body |-> built.body]
                          ELSE [raised |-> built.raised]
           /\ body_self' = [body_self EXCEPT !.options = built.options]
    /\ UNCHANGED << max_workers, plan, pc, lifecycleVars, exc, poolVars,
                    deleteVars, hung, configVars, matrixVars, remapVars,
                    reportVars, body_clusters >>

NextBody ==
    \/ isolation_get_body_content
    \/ tunnel_get_body_content

SpecBody == InitBodyCall /\ [][NextBody]_vars

(***************************************************************************)
(* Properties.                                                             *)
(***************************************************************************)
\* the with-block of the current suite was entered and has been left
BlockExited == entered /\ pc \in {"for", "raised", "done"}

\* create succeeded on resource r
Created(r) == rstate[r] \in {"active", "removed"}

\* the main thread is in the parallel phase of run_tests
InProbePhase == pc \in {"submit", "as_completed"}

\* C1: after a suite's with-block exits, normally or by an exception, delete
\* has been invoked exactly once on every resource whose create succeeded.
C1_DeletedExactlyOnce ==
    BlockExited =>
        \A r \in DOMAIN resources : Created(r) => deleteCalls[r] = 1

\* C2: when a delete fails in teardown (other than not-found), the failure
\* reaches the caller and delete was still invoked on every declared
\* resource of the suite.
C2_DeleteFailureDoesNotBlock ==
    (BlockExited /\ exc = "DeleteError") =>
        /\ pc = "raised"
        /\ \A r \in DOMAIN resources : deleteCalls[r] >= 1

\* C3: a create that fails during setup propagates to the caller, the probe
\* phase of the suite is never started, and delete is invoked on none of
\* the suite's resources, the ones created before the failure included.
C3_CreateFailurePropagates ==
    exc = "CreateError" =>
        /\ pc = "raised"
        /\ ~entered
        /\ ~settled
        /\ tests = << >> /\ fut = << >> /\ run_tests_ended = "None"
        /\ \A r \in DOMAIN resources : deleteCalls[r] = 0
        /\ \A r \in DOMAIN resources : r < ri => rstate[r] = "active"

\* a create failed after an earlier resource of the suite was created
C3_Witness ==
    /\ exc = "CreateError"
    /\ pc = "raised"
    /\ ri = 2
    /\ rstate[1] = "active"
    /\ createCalls[2] = 1

\* the API was asked: the delete got past its argument checks
ApiReached(c) ==
    \/ c.kind = "isolation_network_policy"
    \/ ~Falsy(c.namespace) /\ ~Falsy(c.name)

\* C4: a delete the API answers with 404 returns (None) when
\* exception_on_not_found is false and raises when it is true; any other
\* API error is raised in both modes.
C4_DeleteNotFound ==
    (ret # "None" /\ ApiReached(call)) =>
        /\ (call.status = NotFound /\ ~call.exception_on_not_found)
              => ret = "return None"
        /\ (call.status = NotFound /\ call.exception_on_not_found)
              => ret = "raise ApiException"
        /\ call.status \notin {200, NotFound} => ret = "raise ApiException"

\* a strict delete of an absent custom resource has raised
C4_Witness ==
    /\ ret = "raise ApiException"
    /\ call.status = NotFound
    /\ call.exception_on_not_found
    /\ call.kind = "tunnel_firewall_rule"

\* C5: the phases of a suite are ordered: the creates run one after the
\* other before any test exists, the settle wait precedes the probe phase,
\* a probe is queued or executing only between the settle wait and the
\* return of run_tests, with every resource created and none deleted, and
\* delete is invoked only when every probe has finished.
C5_PhasesOrdered ==
    /\ pc = "create" =>
          /\ tests = << >> /\ fut = << >> /\ ~settled
          /\ \A r \in DOMAIN resources :
                /\ rstate[r] = (IF r < ri THEN "active" ELSE "unprovisioned")
                /\ createCalls[r] = (IF r < ri THEN 1 ELSE 0)
                /\ deleteCalls[r] = 0
    /\ fut # << >> => settled
    /\ (\E i \in DOMAIN fut : fut[i] \in {"pending", "running"}) =>
          /\ InProbePhase
          /\ \A r \in DOMAIN resources :
                rstate[r] = "active" /\ createCalls[r] = 1 /\ deleteCalls[r] = 0
    /\ (pc = "delete" \/ \E r \in DOMAIN resources : deleteCalls[r] > 0) =>
          \A i \in DOMAIN fut : Finished(i)
    /\ pc = "delete" =>
          \A r \in DOMAIN resources : deleteCalls[r] = (IF r < ri THEN 1 ELSE 0)

\* the second resource is being deleted after two probes ran
C5_Witness ==
    /\ pc = "delete"
    /\ ri = 2
    /\ deleteCalls[1] = 1
    /\ settled
    /\ Len(tests) = 2
    /\ \A i \in DOMAIN fut : Finished(i)

\* C6: run_tests enters Test.run of every test exactly once, never twice,
\* and returns only when every run has ended.
C6_EveryTestOnce ==
    /\ \A i \in DOMAIN runs : runs[i] <= 1
    /\ run_tests_ended = "returned" =>
          /\ Len(tests) = Len(plan)
          /\ \A i \in DOMAIN tests : runs[i] = 1 /\ Finished(i)

\* run_tests returned after two runs, one that raised and one that did not
C6_Witness ==
    /\ run_tests_ended = "returned"
    /\ Len(tests) = 2
    /\ runs[1] = 1 /\ runs[2] = 1
    /\ fut[1] = "exception" /\ fut[2] = "done"

\* C7: a probe that raises does not make run_tests raise: once the tests
\* are built run_tests ends only by returning, the list it returns is as
\* long as the list of generated tests however many probes raised, and
\* every sibling of a probe that raised was run to its end.
C7_ResultLength ==
    /\ run_tests_ended = "raised" => fut = << >>
    /\ run_tests_ended = "returned" =>
          /\ Len(results) = Len(plan)
          /\ Len(results) = Len(tests)
    /\ (run_tests_ended # "None" /\ fut # << >>) =>
          \A j \in DOMAIN fut : runs[j] = 1 /\ Finished(j)

\* run_tests returned two tests whose probes both raised
C7_Witness ==
    /\ run_tests_ended = "returned"
    /\ Len(results) = 2
    /\ \A i \in DOMAIN fut : fut[i] = "exception"

\* C8: a test whose run raised is never recorded as a success: its result
\* is False or still None.
C8_RaisedNeverSuccess ==
    \A i \in DOMAIN fut :
        fut[i] = "exception" => tests[i].result \in {"False", "None"}

\* an nslookup run and a run of an unknown test_type have raised
C8_Witness ==
    /\ Len(tests) = 2
    /\ tests[1].test_type = "nslookup" /\ fut[1] = "exception"
    /\ tests[2].test_type = "traceroute" /\ fut[2] = "exception"
    /\ yielded = {1, 2}

\* C9: in the execution phase a step that changes the tests changes one
\* test only, the one whose own run is ending, and only its result field,
\* which was None; the dicts shared by the workers do not change.
C9_OwnResultOnly ==
    [][ (InProbePhase /\ InProbePhase') =>
          /\ kubeconfigs' = kubeconfigs
          /\ remapped_cidrs' = remapped_cidrs
          /\ DOMAIN tests' = DOMAIN tests
          /\ \A i \in DOMAIN tests :
                tests'[i] # tests[i] =>
                   /\ fut[i] = "running" /\ fut'[i] = "done"
                   /\ tests[i].result = "None"
                   /\ tests'[i] = [tests[i] EXCEPT !.result = tests'[i].result]
                   /\ \A j \in DOMAIN tests \ {i} : tests'[j] = tests[j]
      ]_vars

\* the first test has its result, the second one is still executing
C9_Witness ==
    /\ Len(tests) = 2
    /\ fut[1] = "done" /\ tests[1].result = "True"
    /\ fut[2] = "running" /\ tests[2].result = "None"

C11_NoDeadline ==
    /\ [](\A i \in hung : fut[i] = "running" /\ i \notin yielded)
    /\ [](hung # {} => run_tests_ended = "None" /\ pc \in {"submit", "as_completed"})
    /\ [][hung \subseteq hung']_vars
    /\ <>(\/ run_tests_ended = "raised"
          \/ Cardinality(hung) >= max_workers
          \/ /\ DOMAIN fut = 1..Len(plan)
             /\ \A i \in DOMAIN fut : i \in hung \/ (runs[i] = 1 /\ i \in yielded))
    /\ <>(run_tests_ended # "None" \/ hung # {})

\* the first probe call blocks while the second test was run to its end and
\* yielded by as_completed, which goes on waiting
C11_Witness ==
    /\ hung = {1}
    /\ Len(tests) = 2
    /\ fut[2] = "done" /\ yielded = {2}
    /\ pc = "as_completed"
    /\ run_tests_ended = "None"

\* the identity triple of an entity
Triple(e) == << e.cluster_name, e.namespace, e.name >>

SameText(x, y) == x.form = y.form /\ (x.form = "v4" => x.octets = y.octets)

\* the tests of the matrix generated for a source, a destination and a kind
TestsFor(source, destination, test_type) ==
    {i \in DOMAIN tests :
        /\ Triple(tests[i].source) = Triple(source)
        /\ Triple(tests[i].destination) = Triple(destination)
        /\ tests[i].destination.type = destination.type
        /\ tests[i].test_type = test_type}

\* the source's cluster holds no remapped CIDR for the destination's cluster
MissingEntry(source, destination) ==
    /\ IsRemote(source, destination)
    /\ destination.cluster_name \notin DOMAIN clusters[source.cluster_name]

\* a pair the matrix is to hold tests for: two different entities, not a
\* service of another cluster, the remap entry there when it is needed
Eligible(source, destination) ==
    /\ Triple(source) # Triple(destination)
    /\ ~(destination.type = "service" /\
           source.cluster_name # destination.cluster_name)
    /\ ~MissingEntry(source, destination)

\* a pair neither of the three skip rules applies to, the first two as the
\* loops apply them
Kept(source, destination) ==
    /\ ~SkipSelf(source, destination)
    /\ ~SkipRemoteService(source, destination)
    /\ ~MissingEntry(source, destination)

\* C12: when the source's cluster has no remap entry for the destination's
\* cluster, the matrix construction skips every such pair without raising:
\* no Test exists for such a pair, and the other pairs are still generated.
C12_MissingEntrySkipped ==
    (/\ pc # "build"
     /\ \E source \in Range(sources), destination \in Range(destinations) :
           MissingEntry(source, destination)) =>
        /\ run_tests_ended # "raised"
        /\ \A i \in DOMAIN tests :
              ~MissingEntry(tests[i].source, tests[i].destination)
        /\ \A source \in Range(sources), destination \in Range(destinations) :
              Kept(source, destination) =>
                 \A k \in DOMAIN destination.test_suite :
                    TestsFor(source, destination, destination.test_suite[k]) # {}

\* C13: for every eligible pair the matrix holds exactly one Test per probe
\* kind of the destination's test_suite, and none of any other kind.
C13_OnePerKind ==
    pc = "submit" =>
        \A source \in Range(sources), destination \in Range(destinations) :
            Eligible(source, destination) =>
                \A test_type \in TestTypes :
                    Cardinality(TestsFor(source, destination, test_type)) =
                        (IF test_type \in Range(destination.test_suite) THEN 1 ELSE 0)

\* C14: no Test of the matrix has a source and a destination of the same
\* identity triple (cluster, namespace, name).
C14_NoSelfTest ==
    \A i \in DOMAIN tests :
        Triple(tests[i].source) # Triple(tests[i].destination)

\* p1 and p2 of cluster B are sources and destinations: each one is tested
\* against the other
C14_Witness ==
    /\ pc = "submit"
    /\ Len(sources) = 2
    /\ \A k \in DOMAIN sources : sources[k].cluster_name = "B"
    /\ \E i \in DOMAIN tests :
          tests[i].src_name = "p1" /\ tests[i].dst_name = "p2"
    /\ \E i \in DOMAIN tests :
          tests[i].src_name = "p2" /\ tests[i].dst_name = "p1"

\* C15: no Test of the matrix has a destination that is a service of another
\* cluster than its source's.
C15_NoRemoteService ==
    \A i \in DOMAIN tests :
        tests[i].destination.type = "service" =>
            tests[i].source.cluster_name = tests[i].destination.cluster_name

\* pods of both clusters and both services: the matrix holds a test of B's
\* service from a pod of B
C15_Witness ==
    /\ pc = "submit"
    /\ \E k \in DOMAIN sources : sources[k].cluster_name = "A"
    /\ \E k \in DOMAIN sources : sources[k].cluster_name = "B"
    /\ \E k \in DOMAIN destinations :
          destinations[k].type = "service" /\ destinations[k].cluster_name = "A"
    /\ \E i \in DOMAIN tests :
          /\ tests[i].destination.type = "service"
          /\ tests[i].dst_cluster_name = "B"

\* both texts are well formed: a dotted quad and "a.b.c.d/L", L in 0..32
WellFormed(c) ==
    /\ c.original_ip.form = "v4"
    /\ c.remapped_cidr.form = "v4" /\ c.remapped_cidr.slash

\* the number of host bits the prefix length L leaves in octet o
HostBits(L, o) ==
    IF L >= 8 * o THEN 0
    ELSE IF L <= 8 * (o - 1) THEN 8
    ELSE 8 * o - L

\* (network(c) & mask(L)) | (a & ~mask(L)), octet by octet
Remapped(a, c, L) ==
    [o \in 1..4 |->
        LET h == 2 ^ HostBits(L, o)
        IN  (c[o] \div h) * h + (a[o] % h)]

\* C17: for a valid IPv4 address a and a valid CIDR c of prefix length L in
\* 0..32, remap_ip(a, c) is (network(c) & mask(L)) | (a & ~mask(L)): the
\* first L bits of c's network address, then the last 32 - L bits of a; a
\* itself when L = 0, the network address of c when L = 32.
C17_RemapArithmetic ==
    (remap_ret.form # "none" /\ WellFormed(remap_call)) =>
        LET a == remap_call.original_ip.octets
            c == remap_call.remapped_cidr.octets
            L == remap_call.remapped_cidr.prefixlen
        IN  /\ remap_ret.form = "v4"
            /\ remap_ret.octets = Remapped(a, c, L)
            /\ L = 0 => remap_ret.octets = a
            /\ L = 32 => remap_ret.octets = c

\* the address a test is to probe: the destination's address remapped with
\* the CIDR the source's cluster holds for the destination's cluster, or the
\* destination's own address for the same cluster and for no cluster
EffectiveAddress(source, destination) ==
    IF IsRemote(source, destination)
    THEN LET cidr == clusters[source.cluster_name][destination.cluster_name]
         IN  [form |-> "v4",
              octets |-> Remapped(destination.ip.octets, cidr.octets, cidr.prefixlen)]
    ELSE destination.ip

\* C16: the destination address a Test carries is the effective address:
\* remapped for a destination of another cluster (10.2.0.5 under 10.1.0.0/16
\* is 10.1.0.5), unchanged for the same cluster and for an external
\* destination.
C16_EffectiveAddress ==
    \A i \in DOMAIN tests :
        ~MissingEntry(tests[i].source, tests[i].destination) =>
            /\ SameText(tests[i].dst_ip,
                        EffectiveAddress(tests[i].source, tests[i].destination))
            /\ (/\ tests[i].source.cluster_name = "A"
                /\ tests[i].destination.cluster_name = "B"
                /\ tests[i].destination.ip.octets = << 10, 2, 0, 5 >>
                /\ clusters["A"]["B"] = Cidr(<< 10, 1, 0, 0 >>, 16)) =>
                   tests[i].dst_ip.octets = << 10, 1, 0, 5 >>

\* a pod of A tests 10.2.0.5 of B at 10.1.0.5, a pod of B tests it at its own
\* address, and 8.8.8.8 is tested as it is
C16_Witness ==
    /\ pc = "submit"
    /\ \E i \in DOMAIN tests :
          /\ tests[i].source.cluster_name = "A"
          /\ tests[i].destination.cluster_name = "B"
          /\ tests[i].destination.ip.octets = << 10, 2, 0, 5 >>
          /\ tests[i].dst_ip.octets = << 10, 1, 0, 5 >>
    /\ \E i \in DOMAIN tests :
          /\ tests[i].source.cluster_name = "B"
          /\ tests[i].destination.cluster_name = "B"
          /\ tests[i].dst_ip.octets = << 10, 2, 0, 5 >>
    /\ \E i \in DOMAIN tests :
          /\ tests[i].dst_name = "internet"
          /\ tests[i].dst_ip.octets = << 8, 8, 8, 8 >>

\* 10.2.0.5 remapped into 10.71.3.9/20, whose network address is 10.71.0.0
C17_Witness ==
    /\ remap_call.original_ip = [form |-> "v4", octets |-> << 10, 2, 0, 5 >>]
    /\ remap_call.remapped_cidr.form = "v4"
    /\ remap_call.remapped_cidr.slash
    /\ remap_call.remapped_cidr.octets = << 10, 71, 3, 9 >>
    /\ remap_call.remapped_cidr.prefixlen = 20
    /\ remap_ret.form = "v4"
    /\ remap_ret.octets = << 10, 71, 0, 5 >>

\* a text that is not an IPv4 address, or not an IPv4 network
Malformed(c) ==
    \/ c.original_ip.form # "v4"
    \/ c.remapped_cidr.form # "v4"

\* C18: remap_ip fails with a typed InvalidAddressError when the address is
\* not a well-formed IPv4 address or the CIDR is not well formed, and
\* returns no address in that case.
C18_InvalidAddressError ==
    (remap_ret.form # "none" /\ Malformed(remap_call)) =>
        remap_ret.form = "InvalidAddressError"

ConfigViolation ==
    \/ ~config_data.schema_valid
    \/ \E t \in DOMAIN config_data.tests : \E r \in DOMAIN config_data.tests[t] :
          \/ config_data.tests[t][r].type \notin ResourceKinds
          \/ config_data.tests[t][r].cluster \notin ClusterNames

\* C20: a configuration violation is fatal and is raised before any
\* resource is created and before any probe runs: main never enters a
\* suite, whichever suite holds the violation.
C20_NoPartialRun ==
    ConfigViolation =>
        /\ pc \in {"parse_yaml", "load_clusters", "generate_test_suite", "raised"}
        /\ pc = "raised" => exc # "None"
        /\ suite = 0 /\ tests_suites = << >>
        /\ resources = << >> /\ createCalls = << >> /\ deleteCalls = << >>
        /\ executions = 0 /\ tests = << >> /\ fut = << >> /\ runs = << >>

\* the second suite declares a resource of an undeclared cluster: main has
\* raised with the first suite, a valid one, not started
C20_Witness ==
    /\ pc = "raised"
    /\ exc = "KeyError"
    /\ Len(config_data.tests) = 2
    /\ Len(config_data.tests[1]) = 1
    /\ config_data.tests[1][1].type \in ResourceKinds
    /\ config_data.tests[1][1].cluster = "A"
    /\ Len(config_data.tests[2]) = 1
    /\ config_data.tests[2][1].cluster = "Z"
    /\ suite = 0 /\ createCalls = << >> /\ executions = 0

\* create_results_map has returned: results_map holds what it returned
MapReturned == report_pc \in {"dump", "print", "done"}

\* the key paths of the leaves of a results map
Leaves(m) ==
    UNION { UNION { UNION { UNION { UNION { UNION {
        { << a, b, c, d, e, f, g >> : g \in DOMAIN m[a][b][c][d][e][f] } :
        f \in DOMAIN m[a][b][c][d][e] } :
        e \in DOMAIN m[a][b][c][d] } :
        d \in DOMAIN m[a][b][c] } :
        c \in DOMAIN m[a][b] } :
        b \in DOMAIN m[a] } :
        a \in DOMAIN m }

\* m[k1][k2]...[k7]
Leaf(m, path) == m[path[1]][path[2]][path[3]][path[4]][path[5]][path[6]][path[7]]

\* no other test of the list has the key path of test i
UniqueKey(tests_, i) ==
    \A j \in DOMAIN tests_ : j # i => ResultPath(tests_[j]) # ResultPath(tests_[i])

TableRan == table_ret # NoTable

\* the cell of source s and destination d in printed rows: the first
\* element of a row is the source's header
Cell(printed, s, d) == printed[s][d + 1]

\* C22: the matrix table.py prints from the JSON document equals the one
\* main printed: table.py reads the document without raising, and for every
\* source and every destination, the externals whose cluster_name is None
\* included, the cell made from the loaded results map and descriptors
\* equals the cell main made from results_map.
C22_RoundTrip ==
    TableRan =>
        /\ table_ret.raised = "None"
        /\ \A s \in DOMAIN rows :
               \A d \in DOMAIN ReportDestinations(report_call.module) :
                   Cell(table_ret.rows, s, d) = Cell(rows, s, d)

\* the room a string takes on the terminal
Width(string) == Cardinality({k \in DOMAIN string : ~string[k].esc})

\* main has printed the matrix
Printed == report_pc = "done"

\* the result the results map holds for a pair and a probe kind; "None"
\* when it holds none
HeldResult(source, destination, kind) ==
    LET held == PairResults(results_map, source, destination)
    IN  IF held.is_none THEN "None" ELSE GetResult(held.value, kind)

\* the indicator of a result: " Y " on green, " N " on red, three blanks
Indicator(result) ==
    CASE result = "True" -> << Esc("42"), Ch(" "), Ch("Y"), Ch(" "), Esc("0") >>
      [] result = "False" -> << Esc("41"), Ch(" "), Ch("N"), Ch(" "), Esc("0") >>
      [] OTHER -> << Ch(" "), Ch(" "), Ch(" ") >>

\* C23: every cell of the printed matrix is the indicator of the pair's
\* ping result followed by the indicator of its curl result, an absent or
\* None result giving the blank indicator; all indicators take the same
\* room, so a cell of a pair without results is as wide as any other cell.
C23_FixedWidthCells ==
    Printed =>
        /\ \A r1, r2 \in {"True", "False", "None"} :
               Width(Indicator(r1)) = Width(Indicator(r2))
        /\ \A s \in DOMAIN rows :
               \A d \in DOMAIN ReportDestinations(report_call.module) :
                   Cell(rows, s, d) =
                       Indicator(HeldResult(ReportSources(report_call.module)[s],
                                            ReportDestinations(report_call.module)[d],
                                            "ping"))
                       \o Indicator(HeldResult(ReportSources(report_call.module)[s],
                                               ReportDestinations(report_call.module)[d],
                                               "curl"))

\* the probe kinds for which the results map holds the given result for a pair
HeldKinds(source, destination, result) ==
    LET held == PairResults(results_map, source, destination)
    IN  IF held.is_none THEN {}
        ELSE {kind \in DOMAIN held.value : held.value[kind] = result}

\* how many times a character is printed in a string
Count(string, c) == Cardinality({k \in DOMAIN string : string[k] = Ch(c)})

\* C24: every probe kind for which the results map holds a result for a
\* pair, nslookup against the nameserver included, has its own indicator in
\* the pair's printed cell: the cell holds a " Y " for every kind that
\* ended True, a " N " for every kind that ended False, and is as wide as
\* one indicator per kind held.
C24_IndicatorPerKind ==
    Printed =>
        \A s \in DOMAIN rows :
            \A d \in DOMAIN ReportDestinations(report_call.module) :
                LET source == ReportSources(report_call.module)[s]
                    destination == ReportDestinations(report_call.module)[d]
                    cell == Cell(rows, s, d)
                IN  /\ Count(cell, "Y")
                          >= Cardinality(HeldKinds(source, destination, "True"))
                    /\ Count(cell, "N")
                          >= Cardinality(HeldKinds(source, destination, "False"))
                    /\ Width(cell)
                          >= 3 * Cardinality(HeldKinds(source, destination, "True")
                                   \cup HeldKinds(source, destination, "False")
                                   \cup HeldKinds(source, destination, "None"))

\* the isolation policy's body build has ended
IsolationBuilt == body_self.kind = "isolation_network_policy" /\ body_ret # NoBody

\* the names of the clusters of the registry
RegistryNames == {body_clusters.items[k].name : k \in DOMAIN body_clusters.items}

\* the first cluster of the registry that has the given name
Registered(name) ==
    body_clusters.items[CHOOSE k \in DOMAIN body_clusters.items :
                            /\ body_clusters.items[k].name = name
                            /\ \A j \in 1..(k - 1) : body_clusters.items[j].name # name]

C25_WitnessNotFound ==
    /\ IsolationBuilt
    /\ body_clusters.shape = "list"
    /\ body_clusters.items # << >>
    /\ body_self.options.cluster \notin RegistryNames
    /\ body_ret.raised = "ValueError"

\* the step is a body build of the tunnel rule that returns a body
TunnelReturns ==
    /\ body_self.kind = "tunnel_firewall_rule"
    /\ body_ret = NoBody
    /\ body_ret' # NoBody
    /\ body_ret'.raised = "None"

\* the indexes of the destination accept rules of a body
DestinationRuleIndexes(body) ==
    {k \in DOMAIN body.filterRules :
        body.filterRules[k].match = "ip" /\ body.filterRules[k].position = "dst"}

\* the addresses of the pods offloaded to the target cluster from the peer
\* the options name
OffloadedAddresses(options, registry) ==
    LET origin == OptionsGet(options, "allow_to_offloaded_pods_from", "None")
    IN  IF ~Truthy(origin) THEN {}
        ELSE UNION { Range(Get(registry.items[k].local_offloaded_pods, origin)) :
                       k \in {j \in DOMAIN registry.items :
                                registry.items[j].name = options.cluster} }

\* C26: the destination accept rules of the body the tunnel rule's builder
\* returns are on exactly the addresses of allowed_destination_ips and of the
\* pods offloaded from the named peer cluster, and no address has more than
\* one destination accept rule.
C26_DestinationRules ==
    [][TunnelReturns =>
          LET rules == body_ret'.body.filterRules
              dst == DestinationRuleIndexes(body_ret'.body)
          IN  /\ {rules[k].value : k \in dst}
                     = Range(OptionsGet(body_self.options, "allowed_destination_ips", << >>))
                           \cup OffloadedAddresses(body_self.options, body_clusters)
              /\ \A j, k \in dst : j # k => rules[j].value # rules[k].value]_vars

\* the step is a body build that ends, by a return or an exception
BodyBuildEnds == body_ret = NoBody /\ body_ret' # NoBody

\* C28: a body build only reads its inputs: when _get_body_content ends,
\* the resource's options, the allowed_destination_ips list among them, and
\* the clusters the options refer to are what they were when it was called.
C28_BuildOnlyReads ==
    [][BodyBuildEnds => body_self' = body_self /\ body_clusters' = body_clusters]_vars

\* the place of an element in a list that holds it once
Index(seq, e) == CHOOSE k \in DOMAIN seq : seq[k] = e

\* where the loops meet a test: its source's place in sources, its
\* destination's place in destinations, its kind's place in the
\* destination's test_suite
LoopPlace(test) ==
    << Index(sources, test.source), Index(destinations, test.destination),
       Index(test.destination.test_suite, test.test_type) >>

\* lexicographic order of two places
Precedes(a, b) ==
    \/ a[1] < b[1]
    \/ a[1] = b[1] /\ a[2] < b[2]
    \/ a[1] = b[1] /\ a[2] = b[2] /\ a[3] < b[3]

\* C27: the list of Tests the matrix loops build is in one fixed order, the
\* same for every generation from the same sources and destinations: by the
\* source's place in sources, then by the destination's place in
\* destinations, then by the probe kind's place in the destination's
\* test_suite.
C27_MatrixOrder ==
    pc = "submit" =>
        \A i, j \in DOMAIN tests :
            i < j => Precedes(LoopPlace(tests[i]), LoopPlace(tests[j]))

\* a matrix of two sources, each with tests to more than one destination,
\* one of them of two kinds
C27_Witness ==
    /\ pc = "submit"
    /\ Len(sources) = 2
    /\ \A k \in DOMAIN sources :
           Cardinality({tests[i].destination : i \in {j \in DOMAIN tests :
                                                        tests[j].source = sources[k]}}) >= 2
    /\ \E i \in DOMAIN tests :
           i < Len(tests) /\ tests[i].destination = tests[i + 1].destination
                          /\ tests[i].test_type # tests[i + 1].test_type

\* the step takes the next suite of the list after an earlier one
NextSuiteTaken == suite >= 1 /\ suite' = suite + 1

\* C29: suites run one after another: when main takes the next suite, and
\* so before create is invoked on any of its resources, delete has been
\* invoked on every resource of the suite before it and none of them is
\* active.
C29_SuitesSequential ==
    [][NextSuiteTaken =>
          \A r \in DOMAIN resources :
              deleteCalls[r] = 1 /\ rstate[r] # "active"]_vars

\* create was invoked on a resource of the second suite
C29_Witness ==
    /\ suite = 2
    /\ Len(resources) = MaxResources
    /\ createCalls[1] = 1
    /\ rstate[1] = "active"

\* an exception raised in the with-body is pending
BodyRaised == exc \in {"KeyError", "BodyError"}

\* C30: an exception raised inside the with-block is not swallowed by the
\* TestManager: the teardown runs first (the step that raises starts
\* __exit__, and delete is invoked on every resource), then that exception
\* leaves main, and no later suite is set up or run.
C30_BlockExceptionPropagates ==
    [][/\ (exc = "None" /\ BodyRaised') => (pc' = "delete" /\ ri' = 1)
       /\ BodyRaised =>
              /\ pc \in {"delete", "raised"}
              /\ pc' \in {"delete", "raised"}
              /\ suite' = suite
              /\ pc' = "raised" =>
                     /\ exc' = exc
                     /\ \A r \in DOMAIN resources : deleteCalls'[r] = 1
       /\ pc # "raised"]_vars

====
